---- MODULE Spec2Model ----
(***************************************************************************)
(* Evaluation pipeline and scoring engine of the app-rating service:       *)
(* the generation client (callClaude, both the Anthropic and the xAI       *)
(* variant), JSON extraction, the response validator, the orchestrator     *)
(* runAIEvaluation, and the pure scoring functions.                        *)
(***************************************************************************)
EXTENDS Integers, Sequences, FiniteSets, TLC

VARIABLES
    variant,        \* which callClaude is linked: "anthropic" or "xai"
    apiKeySet,      \* process.env.XAI_API_KEY is set
    retries,        \* options.retries of the running callClaude
    c_pc,           \* position of callClaude
    attempt,        \* loop variable of callClaude
    lastError,      \* local lastError of callClaude
    attempts,       \* history: outcome of every request sent, in order
    sleeps,         \* history: every backoff sleep [after, ms]
    claudeOut,      \* value returned / error raised by callClaude
    e_pc,           \* position of runAIEvaluation
    pageSpeedData,  \* local of runAIEvaluation
    scrapedContent, \* local of runAIEvaluation
    evalResult,     \* AIEvaluationResult returned by runAIEvaluation
    engine,         \* which scoring module is linked: "part_000" or "part_001"
    scores,         \* input of the scoring functions
    recommendation, \* result of calculateRecommendation
    ovIn,           \* input triple of calculateOverallScore
    ovOut,          \* result of calculateOverallScore
    call,           \* a pure function being applied: its name, variant and argument
    ret,            \* what that application returned
    evaluations,    \* the rows of the evaluations table, in insertion order
    projects,       \* the projects table: how often updatedAt of a project was set
    responseStatus, \* HTTP status of the last answer of POST /api/evaluate, 0 before
    owned,          \* number of rows of the projects table owned by the user
    p_pc,           \* position of every POST /api/projects request
    p_status,       \* HTTP status every POST /api/projects request was answered with, 0 before
    queue,          \* useBatchEvaluation: the queue state
    isProcessing,   \* useBatchEvaluation: the isProcessing state
    shouldProcess,  \* useBatchEvaluation: the shouldProcess state
    inflight,       \* the processItem calls that are waiting for a response
    storage,        \* localStorage[STORAGE_KEY]
    created         \* history: how often POST /api/projects was issued for an item

claudeVars == <<variant, apiKeySet, retries, c_pc, attempt, lastError, attempts, sleeps, claudeOut>>
evalVars == <<e_pc, pageSpeedData, scrapedContent, evalResult>>
scoreVars == <<engine, scores, recommendation>>
overallVars == <<ovIn, ovOut>>
callVars == <<call, ret>>
dbVars == <<evaluations, projects, responseStatus>>
projectVars == <<owned, p_pc, p_status>>
batchVars == <<queue, isProcessing, shouldProcess, inflight, storage, created>>
\* what a step of callClaude / of the evaluation pipeline leaves alone
outsideClaude == <<evalVars, scoreVars, overallVars, callVars, dbVars, projectVars, batchVars>>
outsidePipeline == <<scoreVars, overallVars, callVars, dbVars, projectVars, batchVars>>
vars == <<variant, apiKeySet, retries, c_pc, attempt, lastError, attempts, sleeps, claudeOut,
          e_pc, pageSpeedData, scrapedContent, evalResult, engine, scores, recommendation, ovIn, ovOut, call, ret,
          evaluations, projects, responseStatus, owned, p_pc, p_status,
          queue, isProcessing, shouldProcess, inflight, storage, created>>

\* JS null / undefined of a numeric field
NULL == -1

(***************************************************************************)
(* Bounds of the model                                                     *)
(***************************************************************************)
\* largest retries option tried for callClaude
MaxRetries == 2
\* number of metrics besides value and maintenance that an input may set
MaxOtherMetrics == 2
\* number of metrics set in one category of an overall-score input
MaxCount == 1
\* number of evaluation rows after which POST /api/evaluate is no longer called
MaxEvaluations == 2
\* number of POST /api/projects requests of the user
MaxProjectRequests == 3
\* number of items ever added to the batch queue
MaxItems == 2
\* how often POST /api/projects has been issued for an item when the user
\* stops retrying and reloading
MaxCreations == 2

(***************************************************************************)
(* JSON values as JSON.parse produces them.  Numbers are kept in tenths    *)
(* (75 is 7.5) so that non-integer scores exist.                           *)
(***************************************************************************)
Undefined == [t |-> "undefined"]
JNull == [t |-> "null"]
JNum(n) == [t |-> "number", n |-> n]
JStr(s) == [t |-> "string", s |-> s]
JArr(a) == [t |-> "array", a |-> a]
JObj(f) == [t |-> "object", f |-> f]

\* typeof v
TypeOf(v) == IF v.t \in {"null", "array"} THEN "object" ELSE v.t

\* v[k] for a value that passed the typeof-object and non-null checks
Prop(v, k) == IF v.t = "object" /\ k \in DOMAIN v.f THEN v.f[k] ELSE Undefined

productKeys == <<"usability", "value", "features", "polish", "competition">>
businessKeys == <<"market", "monetization", "maintenance", "growth">>

Range(s) == {s[i] : i \in DOMAIN s}

(***************************************************************************)
(* Response text.  A text is a sequence of tokens: a code fence ```, the   *)
(* literal word json, whitespace, prose, or one complete JSON document.    *)
(***************************************************************************)
Fence == [k |-> "fence"]
JsonTag == [k |-> "json"]
Ws == [k |-> "ws"]
Prose == [k |-> "text"]
DocTok(v) == [k |-> "doc", v |-> v]

\* message of an Error, as its words
Msg(words) == [t |-> "string", s |-> words]
Includes(msg, word) == \E i \in DOMAIN msg.s : msg.s[i] = word

RECURSIVE TrimLeft(_)
TrimLeft(s) == IF s # <<>> /\ Head(s) = Ws THEN TrimLeft(Tail(s)) ELSE s

RECURSIVE TrimRight(_)
TrimRight(s) == IF s # <<>> /\ s[Len(s)] = Ws THEN TrimRight(SubSeq(s, 1, Len(s) - 1)) ELSE s

\* String.prototype.trim
Trim(s) == TrimRight(TrimLeft(s))

\* index of the first fence of s at or after position from, 0 if none
FirstFence(s, from) ==
    LET hits == {i \in from..Len(s) : s[i] = Fence}
    IN IF hits = {} THEN 0 ELSE CHOOSE i \in hits : \A j \in hits : i <= j

\* cleaned.match(/```(?:json)?\s*([\s\S]*?)```/): the capture group, or
\* [matched |-> FALSE].  The leftmost opening fence that has a closing fence
\* after it wins; the optional tag and the whitespace are consumed greedily,
\* the capture is lazy and stops at the next fence.
FenceMatch(s) ==
    LET open == FirstFence(s, 1)
        close == IF open = 0 THEN 0 ELSE FirstFence(s, open + 1)
    IN IF close = 0 THEN [matched |-> FALSE]
       ELSE LET afterTag == IF open + 1 < close /\ s[open + 1] = JsonTag THEN open + 2 ELSE open + 1
                inner == SubSeq(s, afterTag, close - 1)
            IN [matched |-> TRUE, group |-> TrimLeft(inner)]

\* A JSON document one of whose strings holds code fences is written as
\* its text up to the first fence, the content of the string from there to
\* its last fence, and the rest of its text.
DocHead(v) == [k |-> "head", v |-> v]
DocTail(v) == [k |-> "tail", v |-> v]

\* body is the complete text of one document with fences in a string
IsSplitDoc(body) ==
    /\ Len(body) >= 3
    /\ body[1].k = "head" /\ body[Len(body)].k = "tail"
    /\ body[1].v = body[Len(body)].v
    /\ \A i \in 2..(Len(body) - 1) : body[i].k \notin {"head", "tail"}
    /\ \E i \in 2..(Len(body) - 1) : body[i] = Fence

\* JSON.parse: whitespace around the document is allowed, anything else throws
JSONparse(s) ==
    LET body == Trim(s)
    IN IF (Len(body) = 1 /\ body[1].k = "doc") \/ IsSplitDoc(body)
       THEN [ok |-> TRUE, value |-> body[1].v]
       ELSE [ok |-> FALSE, error |-> Msg(<<"Failed", "to", "parse", "JSON", "response">>)]

parseJsonResponse(response) ==
    LET cleaned == Trim(response)
        m == FenceMatch(cleaned)
    IN JSONparse(IF m.matched THEN Trim(m.group) ELSE cleaned)

(***************************************************************************)
(* Response validator                                                      *)
(***************************************************************************)
\* the range check without its upper end
isValidMetricNoUpper(metric) ==
    /\ TypeOf(metric) = "object"
    /\ metric # JNull
    /\ LET score == Prop(metric, "score")
           reason == Prop(metric, "reason")
       IN /\ TypeOf(score) = "number"
          /\ score.n >= 10
          /\ TypeOf(reason) = "string"

\* the range check without its lower end
isValidMetricNoLower(metric) ==
    /\ TypeOf(metric) = "object"
    /\ metric # JNull
    /\ LET score == Prop(metric, "score")
           reason == Prop(metric, "reason")
       IN /\ TypeOf(score) = "number"
          /\ score.n <= 100
          /\ TypeOf(reason) = "string"

isValidMetric(metric) ==
    /\ TypeOf(metric) = "object"
    /\ metric # JNull
    /\ LET score == Prop(metric, "score")
           reason == Prop(metric, "reason")
       IN /\ TypeOf(score) = "number"
          /\ score.n >= 10
          /\ score.n <= 100
          /\ TypeOf(reason) = "string"

validateEvaluationResponse(data) ==
    /\ TypeOf(data) = "object" /\ data # JNull
    /\ LET fi == Prop(data, "firstImpressions")
       IN /\ TypeOf(fi) = "object" /\ fi # JNull
          /\ TypeOf(Prop(fi, "whatItDoes")) = "string"
          /\ TypeOf(Prop(fi, "targetUser")) = "string"
          /\ Prop(fi, "trustLevel") \in {JStr("low"), JStr("medium"), JStr("high")}
    /\ LET product == Prop(data, "product")
       IN /\ TypeOf(product) = "object" /\ product # JNull
          /\ \A i \in DOMAIN productKeys : isValidMetric(Prop(product, productKeys[i]))
    /\ LET business == Prop(data, "business")
       IN /\ TypeOf(business) = "object" /\ business # JNull
          /\ \A i \in DOMAIN businessKeys : isValidMetric(Prop(business, businessKeys[i]))
    /\ LET recs == Prop(data, "recommendations")
       IN /\ recs.t = "array"
          /\ Len(recs.a) # 0
          /\ \A i \in DOMAIN recs.a : TypeOf(recs.a[i]) = "string"
    /\ TypeOf(Prop(data, "summary")) = "string"

\* the validator of the earlier response format: product, business, summary
validateEvaluationResponseOld(data) ==
    /\ TypeOf(data) = "object" /\ data # JNull
    /\ LET product == Prop(data, "product")
       IN /\ TypeOf(product) = "object" /\ product # JNull
          /\ \A i \in DOMAIN productKeys : isValidMetric(Prop(product, productKeys[i]))
    /\ LET business == Prop(data, "business")
       IN /\ TypeOf(business) = "object" /\ business # JNull
          /\ \A i \in DOMAIN businessKeys : isValidMetric(Prop(business, businessKeys[i]))
    /\ TypeOf(Prop(data, "summary")) = "string"

(***************************************************************************)
(* The responses the generation service may give                          *)
(***************************************************************************)
Metric(n) == JObj([score |-> JNum(n), reason |-> JStr("because")])

\* the product object of a document whose metric k is replaced by m
ProductOf(base, k, m) ==
    JObj([key \in Range(productKeys) |-> IF key = k THEN m ELSE Metric(base[key])])
BusinessOf(base, k, m) ==
    JObj([key \in Range(businessKeys) |-> IF key = k THEN m ELSE Metric(base[key])])

GoodImpressions ==
    JObj([whatItDoes |-> JStr("rates apps"), targetUser |-> JStr("indie developers"),
          trustLevel |-> JStr("medium")])
GoodRecs == JArr(<<JStr("add pricing"), JStr("add testimonials")>>)

Document(fi, product, business, recs, summary) ==
    JObj([firstImpressions |-> fi, product |-> product, business |-> business,
          recommendations |-> recs, summary |-> summary])

\* score profiles, in tenths: every metric different, all lowest, all highest
Distinct == [usability |-> 10, value |-> 20, features |-> 30, polish |-> 40, competition |-> 50,
             market |-> 60, monetization |-> 70, maintenance |-> 80, growth |-> 90]
Profiles == {Distinct, [k \in DOMAIN Distinct |-> 10], [k \in DOMAIN Distinct |-> 100]}

\* a document with profile base whose metric k is replaced by m ("" for none)
DocWith(base, k, m) ==
    Document(GoodImpressions, ProductOf(base, k, m), BusinessOf(base, k, m), GoodRecs, JStr("fine"))

\* what a metric can be in a response
BadMetrics ==
    {Undefined, JNull, Metric(0), Metric(110), Metric(9),
     JObj([score |-> JStr("8"), reason |-> JStr("because")]),
     JObj([score |-> JNum(80)])}
OddMetrics ==
    {Metric(75), JObj([score |-> JNum(80), reason |-> JStr("")])}

MetricDefectDocs ==
    {DocWith(Distinct, k, m) : k \in Range(productKeys) \cup Range(businessKeys),
                               m \in {Undefined, Metric(0), Metric(110)}}
    \cup {DocWith(Distinct, k, m) : k \in {"value", "maintenance"}, m \in BadMetrics \cup OddMetrics}

ShapeDefectDocs ==
    {JNull, JNum(70), JArr(<<>>), JStr("ok"),
     Document(Undefined, ProductOf(Distinct, "", Undefined), BusinessOf(Distinct, "", Undefined),
              GoodRecs, JStr("fine")),
     Document(JObj([whatItDoes |-> JStr("rates apps"), targetUser |-> JStr("indie developers"),
                    trustLevel |-> JStr("total")]),
              ProductOf(Distinct, "", Undefined), BusinessOf(Distinct, "", Undefined),
              GoodRecs, JStr("fine")),
     Document(GoodImpressions, Undefined, BusinessOf(Distinct, "", Undefined), GoodRecs, JStr("fine")),
     Document(GoodImpressions, ProductOf(Distinct, "", Undefined), JNull, GoodRecs, JStr("fine")),
     Document(GoodImpressions, ProductOf(Distinct, "", Undefined), BusinessOf(Distinct, "", Undefined),
              JArr(<<>>), JStr("fine")),
     Document(GoodImpressions, ProductOf(Distinct, "", Undefined), BusinessOf(Distinct, "", Undefined),
              Undefined, JStr("fine")),
     Document(GoodImpressions, ProductOf(Distinct, "", Undefined), BusinessOf(Distinct, "", Undefined),
              JArr(<<JStr("add pricing"), JNum(30)>>), JStr("fine")),
     Document(GoodImpressions, ProductOf(Distinct, "", Undefined), BusinessOf(Distinct, "", Undefined),
              GoodRecs, Undefined),
     Document(GoodImpressions, ProductOf(Distinct, "", Undefined), BusinessOf(Distinct, "", Undefined),
              GoodRecs, JStr(""))}

Docs == {DocWith(base, "", Undefined) : base \in Profiles} \cup MetricDefectDocs \cup ShapeDefectDocs

\* a document of the earlier response format
OldDocWith(base, k, m, summary) ==
    JObj([product |-> ProductOf(base, k, m), business |-> BusinessOf(base, k, m),
          summary |-> summary])

\* the parsed responses the validators are applied to: every metric with
\* every defect, in both formats, and the shape defects
ValidateDocs ==
    Docs
    \cup {DocWith(Distinct, k, m) : k \in Range(productKeys) \cup Range(businessKeys),
                                    m \in BadMetrics \cup OddMetrics}
    \cup {OldDocWith(Distinct, k, m, JStr("fine")) :
              k \in Range(productKeys) \cup Range(businessKeys), m \in BadMetrics \cup OddMetrics}
    \cup {OldDocWith(base, "", Undefined, summary) :
              base \in Profiles, summary \in {JStr("fine"), JStr(""), Undefined, JNum(10)}}

\* the ways a document is wrapped in the response text
Wrappings(d) ==
    {<<DocTok(d)>>,
     <<Ws, DocTok(d), Ws>>,
     <<Fence, JsonTag, Ws, DocTok(d), Ws, Fence>>,
     <<Fence, Ws, DocTok(d), Ws, Fence>>,
     <<Prose, Ws, Fence, JsonTag, Ws, DocTok(d), Ws, Fence, Ws, Prose>>,
     <<Prose, Ws, DocTok(d)>>}

Contents ==
    {<<DocTok(d)>> : d \in Docs}
    \cup UNION {Wrappings(d) : d \in {DocWith(Distinct, "", Undefined), DocWith(Distinct, "value", Metric(0))}}
    \cup {<<>>, <<Prose>>, <<Fence, JsonTag, Ws, Prose, Ws, Fence>>}

(***************************************************************************)
(* Generation client: callClaude                                           *)
(***************************************************************************)
\* default of options.retries
DefaultRetries == 2
\* base delay of the backoff, in ms
BaseDelay == 1000

Usage == [input |-> 1200, output |-> 300]

\* what anthropic.messages.create does: rejects with an APIError (status 0
\* is a connection error, which has no status) or resolves with a message
\* that has a text block or none
AnthropicReplies ==
    {[k |-> "apiError", status |-> st] : st \in {0, 400, 401, 403, 500}}
    \cup {[k |-> "message", hasText |-> FALSE, text |-> <<>>, usage |-> Usage]}
    \cup {[k |-> "message", hasText |-> TRUE, text |-> c, usage |-> Usage] : c \in Contents}

\* what fetch(XAI_API_URL) does: rejects, or resolves with a status, an error
\* text, and for 200 a body with or without content and usage
XaiReplies ==
    {[k |-> "network"]}
    \cup {[k |-> "http", status |-> st, errorText |-> <<>>] : st \in {400, 401, 403, 500}}
    \cup {[k |-> "http", status |-> 500, errorText |-> <<"upstream", "said", "401">>]}
    \cup {[k |-> "body", hasContent |-> FALSE, content |-> <<>>, hasUsage |-> TRUE, usage |-> Usage]}
    \cup {[k |-> "body", hasContent |-> TRUE, content |-> c, hasUsage |-> TRUE, usage |-> Usage] : c \in Contents}
    \cup {[k |-> "body", hasContent |-> TRUE, content |-> <<DocTok(DocWith(Distinct, "", Undefined))>>,
           hasUsage |-> FALSE, usage |-> Usage]}

Replies(v) == IF v = "anthropic" THEN AnthropicReplies ELSE XaiReplies

Failure(isApiError, status, words) ==
    [ok |-> FALSE, error |-> [apiError |-> isApiError, status |-> status, message |-> Msg(words)]]
Success(content, inTok, outTok) ==
    [ok |-> TRUE, out |-> [content |-> content, inputTokens |-> inTok, outputTokens |-> outTok]]

\* body of the try block of the Anthropic variant
AnthropicAttempt(reply) ==
    IF reply.k = "apiError"
    THEN Failure(TRUE, reply.status, <<ToString(reply.status), "status", "code">>)
    ELSE IF ~reply.hasText
         THEN Failure(FALSE, 0, <<"No", "text", "content", "in", "response">>)
         ELSE Success(reply.text, reply.usage.input, reply.usage.output)

\* body of the try block of the xAI variant; an empty content is falsy
XaiAttempt(reply) ==
    IF reply.k = "network"
    THEN Failure(FALSE, 0, <<"fetch", "failed">>)
    ELSE IF reply.k = "http"
         THEN Failure(FALSE, 0, <<"xAI", "API", "error", ToString(reply.status), ":">> \o reply.errorText)
         ELSE IF ~reply.hasContent \/ reply.content = <<>>
              THEN Failure(FALSE, 0, <<"No", "content", "in", "response">>)
              ELSE Success(reply.content,
                           IF reply.hasUsage THEN reply.usage.input ELSE 0,
                           IF reply.hasUsage THEN reply.usage.output ELSE 0)

Attempt(v, reply) == IF v = "anthropic" THEN AnthropicAttempt(reply) ELSE XaiAttempt(reply)

\* the errors the catch block rethrows at once
AnthropicNoRetry(err) == err.apiError /\ (err.status = 401 \/ err.status = 400)
\* only 401 is taken for an auth error
XaiNoRetry401Only(err) == Includes(err.message, "401")
XaiNoRetry(err) == Includes(err.message, "401") \/ Includes(err.message, "403")
NoRetry(v, err) == IF v = "anthropic" THEN AnthropicNoRetry(err) ELSE XaiNoRetry(err)

RECURSIVE Pow2(_)
Pow2(n) == IF n = 0 THEN 1 ELSE 2 * Pow2(n - 1)

\* a backoff that does not grow
BackoffConstant(a) == BaseDelay

\* 1000 * Math.pow(2, attempt)
Backoff(a) == BaseDelay * Pow2(a)

NoError == [apiError |-> FALSE, status |-> 0, message |-> JNull]
NoOut == [t |-> "none"]

\* the loop test off by one
LoopTestStrict(a, n) == a < n

\* the for loop's test
LoopTest(a, n) == a <= n

\* entry: the xAI variant refuses to start without its key
ClaudeStart ==
    /\ c_pc = "start"
    /\ IF variant = "xai" /\ ~apiKeySet
       THEN /\ c_pc' = "raised"
            /\ claudeOut' = [apiError |-> FALSE, status |-> 0,
                             message |-> Msg(<<"XAI_API_KEY", "environment", "variable", "is", "not", "set">>)]
            /\ UNCHANGED attempt
       ELSE /\ attempt' = 0
            /\ IF LoopTest(0, retries)
               THEN c_pc' = "request" /\ UNCHANGED claudeOut
               ELSE c_pc' = "raised" /\ claudeOut' = [apiError |-> FALSE, status |-> 0,
                                                       message |-> Msg(<<"API", "call", "failed">>)]
    /\ UNCHANGED <<variant, apiKeySet, retries, lastError, attempts, sleeps>>
    /\ UNCHANGED outsideClaude

\* one request whose try block completes: return
ClaudeAttemptOk ==
    /\ c_pc = "request"
    /\ \E reply \in Replies(variant) :
          /\ Attempt(variant, reply).ok
          /\ attempts' = Append(attempts, reply)
          /\ claudeOut' = Attempt(variant, reply).out
    /\ c_pc' = "returned"
    /\ UNCHANGED <<variant, apiKeySet, retries, attempt, lastError, sleeps>>
    /\ UNCHANGED outsideClaude

\* one request whose try block throws: the catch block
ClaudeAttemptFail ==
    /\ c_pc = "request"
    /\ \E reply \in Replies(variant) :
          LET res == Attempt(variant, reply)
          IN /\ ~res.ok
             /\ attempts' = Append(attempts, reply)
             /\ lastError' = res.error
             /\ IF NoRetry(variant, res.error)
                THEN /\ c_pc' = "raised"
                     /\ claudeOut' = res.error
                     /\ UNCHANGED <<attempt, sleeps>>
                ELSE IF attempt < retries
                     THEN /\ c_pc' = "sleep"
                          /\ sleeps' = Append(sleeps, [after |-> attempt, ms |-> Backoff(attempt)])
                          /\ UNCHANGED <<attempt, claudeOut>>
                     ELSE /\ attempt' = attempt + 1
                          /\ IF LoopTest(attempt + 1, retries)
                             THEN c_pc' = "request" /\ UNCHANGED claudeOut
                             ELSE c_pc' = "raised" /\ claudeOut' = res.error
                          /\ UNCHANGED sleeps
    /\ UNCHANGED <<variant, apiKeySet, retries>>
    /\ UNCHANGED outsideClaude

\* the backoff timer fires: next iteration of the loop
ClaudeWake ==
    /\ c_pc = "sleep"
    /\ attempt' = attempt + 1
    /\ IF LoopTest(attempt + 1, retries)
       THEN c_pc' = "request" /\ UNCHANGED claudeOut
       ELSE c_pc' = "raised" /\ claudeOut' = lastError
    /\ UNCHANGED <<variant, apiKeySet, retries, lastError, attempts, sleeps>>
    /\ UNCHANGED outsideClaude

(***************************************************************************)
(* Performance audit and content extraction, as far as the orchestrator    *)
(* depends on them                                                         *)
(***************************************************************************)
\* what fetchPageSpeedData resolves to: null, or the category scores in percent
\* the Lighthouse audits analyzeUrl reads
AuditNames ==
    {"viewport", "tap-targets", "color-contrast", "is-on-https", "meta-description",
     "document-title", "errors-in-console", "valid-source-maps", "no-unload-listeners"}

\* an audit is absent, or has the score null, 0, 0.5 or 1 (in hundredths)
ABSENT == -2
AuditsAll(score) == [a \in AuditNames |-> score]

\* what fetchPageSpeedData resolves to: null, or the category scores in
\* percent with the audits
NoData ==
    [hasData |-> FALSE, performance |-> NULL, accessibility |-> NULL, seo |-> NULL,
     audits |-> AuditsAll(ABSENT)]
PageSpeed(performance, accessibility, seo, audits) ==
    [hasData |-> TRUE, performance |-> performance, accessibility |-> accessibility,
     seo |-> seo, audits |-> audits]
MobileFetches == {NoData, PageSpeed(55, 90, 80, AuditsAll(100))}
DesktopFetches == {NoData, PageSpeed(90, 95, 80, AuditsAll(100))}

extractLighthouseScores(data) ==
    IF ~data.hasData
    THEN [performance |-> NULL, accessibility |-> NULL, seo |-> NULL]
    ELSE [performance |-> data.performance, accessibility |-> data.accessibility, seo |-> data.seo]

\* x || 0
OrZero(x) == IF x = NULL THEN 0 ELSE x

\* Math.round((m + (d || 0)) / 2 * 0.8 + m * 0.2), in tenths: (m + d) * 4 + m * 2,
\* always an even number of tenths, so the rounding never sits on a tie
mobileScore(m, d) ==
    IF m # NULL THEN ((m + OrZero(d)) * 4 + m * 2 + 5) \div 10 ELSE NULL

\* audits[name]?.score === 0
ScoreIsZero(audits, name) == audits[name] = 0

\* audits[name]?.score !== null && audits[name]?.score < limit: an absent
\* audit reads undefined, which is not null and compares false
ScoreBelow(audits, name, limit) ==
    audits[name] # NULL /\ audits[name] # ABSENT /\ audits[name] < limit

Issue(category, severity, message) ==
    [category |-> category, severity |-> severity, message |-> message]

\* the issues in the order analyzeUrl pushes them
IssuesOf(audits) ==
    (IF ScoreIsZero(audits, "viewport")
     THEN <<Issue("mobile", "high", "Missing viewport meta tag")>> ELSE <<>>)
    \o (IF ScoreBelow(audits, "tap-targets", 90)
        THEN <<Issue("mobile", "medium", "Touch targets too small")>> ELSE <<>>)
    \o (IF ScoreBelow(audits, "color-contrast", 100)
        THEN <<Issue("accessibility", "high", "Insufficient color contrast")>> ELSE <<>>)
    \o (IF ScoreIsZero(audits, "is-on-https")
        THEN <<Issue("security", "high", "Site not served over HTTPS")>> ELSE <<>>)
    \o (IF ScoreIsZero(audits, "meta-description")
        THEN <<Issue("seo", "medium", "Missing meta description")>> ELSE <<>>)
    \o (IF ScoreIsZero(audits, "document-title")
        THEN <<Issue("seo", "medium", "Missing page title")>> ELSE <<>>)

\* audits[name]?.score ?? 1
ScoreOrOne(audits, name) == IF audits[name] \in {NULL, ABSENT} THEN 100 ELSE audits[name]

\* Math.round(sum / 3 * 100): the sum is a multiple of 0.5, so the value is
\* a multiple of 100/6 and never sits on a tie
technicalScore(audits) ==
    ((ScoreOrOne(audits, "errors-in-console") + ScoreOrOne(audits, "valid-source-maps")
        + ScoreOrOne(audits, "no-unload-listeners")) * 2 + 3) \div 6

\* audits['is-on-https']?.score === 1 ? 100 : 0
securityScore(audits) == IF audits["is-on-https"] = 100 THEN 100 ELSE 0

analyzeUrl(mobileData, desktopData) ==
    LET mobileScores == extractLighthouseScores(mobileData)
        desktopScores == extractLighthouseScores(desktopData)
        audits == IF mobileData.hasData THEN mobileData.audits ELSE AuditsAll(ABSENT)
    IN [performance |-> mobileScores.performance,
        accessibility |-> mobileScores.accessibility,
        mobile |-> mobileScore(mobileScores.performance, desktopScores.performance),
        seo |-> mobileScores.seo,
        security |-> securityScore(audits),
        technical |-> technicalScore(audits),
        rawData |-> [mobile |-> mobileData, desktop |-> desktopData],
        issues |-> IssuesOf(audits)]

(***************************************************************************)
(* Content extraction.  A page is what the extractor's patterns find in    *)
(* it: its title and description, the number of its headings, the length   *)
(* of its cleaned text, the features its text mentions, its technologies   *)
(* and the number of its call-to-action labels.  A string array is the     *)
(* sequence of its entries' indexes, a text is its length.                 *)
(***************************************************************************)
FeatureFlags ==
    {"hasPricing", "hasLogin", "hasSocialProof", "hasSecurityBadges", "hasVideo", "hasFaq"}

\* limits of the extractor
HeadingLimit == 20
ContentLimit == 6000
EllipsisLength == 3
CtaLimit == 10

Page(title, description, headings, length, flags, technologies, ctas) ==
    [title |-> title, description |-> description, headings |-> headings,
     length |-> length, flags |-> flags, technologies |-> technologies, ctas |-> ctas]

EmptyPage == Page(JNull, JNull, 0, 0, {}, <<>>, 0)
PlainPage == Page(JStr("AppRater"), JNull, 3, 14, {"hasPricing"}, <<>>, 2)
FullPage ==
    Page(JStr("AppRater"), JStr("Rate your apps"), HeadingLimit, ContentLimit,
         {"hasLogin", "hasFaq"}, <<"React">>, CtaLimit)
LongPage ==
    Page(JStr("AppRater"), JStr("Rate your apps"), HeadingLimit + 5, ContentLimit + 1000,
         FeatureFlags, <<"Next.js", "Stripe">>, CtaLimit + 2)
ErrorPage == Page(JStr("Service Unavailable"), JNull, 1, 40, {}, <<>>, 0)
Pages == {EmptyPage, PlainPage, FullPage, LongPage, ErrorPage}

\* the first n of a string array with len entries
Slice(len, n) == [i \in 1..(IF len < n THEN len ELSE n) |-> i]

\* substring(0, 6000) + '...' for a longer text
Truncate(length) == IF length > ContentLimit THEN ContentLimit + EllipsisLength ELSE length

emptyResult(error) ==
    [title |-> JNull, metaDescription |-> JNull, headings |-> <<>>, mainContent |-> 0,
     hasPricing |-> FALSE, hasLogin |-> FALSE, technologies |-> <<>>, ctas |-> <<>>,
     hasSocialProof |-> FALSE, hasSecurityBadges |-> FALSE, hasVideo |-> FALSE,
     hasFaq |-> FALSE, error |-> error]

\* the result both strategies build from a page they obtained
parseHtml(page) ==
    [title |-> page.title, metaDescription |-> page.description,
     headings |-> Slice(page.headings, HeadingLimit),
     mainContent |-> Truncate(page.length),
     hasPricing |-> "hasPricing" \in page.flags, hasLogin |-> "hasLogin" \in page.flags,
     technologies |-> page.technologies, ctas |-> Slice(page.ctas, CtaLimit),
     hasSocialProof |-> "hasSocialProof" \in page.flags,
     hasSecurityBadges |-> "hasSecurityBadges" \in page.flags,
     hasVideo |-> "hasVideo" \in page.flags, hasFaq |-> "hasFaq" \in page.flags,
     error |-> JNull]

\* what the rendering service does: no key configured, the scrape raises,
\* or it returns a document
FirecrawlOutcomes ==
    {[kind |-> "nokey"], [kind |-> "throws"]} \cup {[kind |-> "doc", page |-> pg] : pg \in Pages}

\* null when the service is not configured or raised
scrapeWithFirecrawl(outcome) ==
    IF outcome.kind = "doc" THEN parseHtml(outcome.page) ELSE JNull

\* what the direct fetch does: it raises an Error (network, abort after the
\* timeout), raises something else, answers with a non-2xx status, or
\* answers with a page
FetchOutcomes ==
    {[kind |-> "throws", error |-> [isError |-> TRUE, message |-> Msg(<<"fetch", "failed">>)]],
     [kind |-> "throws", error |-> [isError |-> TRUE, message |-> Msg(<<"This", "operation", "was", "aborted">>)]],
     [kind |-> "throws", error |-> [isError |-> FALSE, message |-> JNull]],
     [kind |-> "status", status |-> "404", page |-> ErrorPage],
     [kind |-> "status", status |-> "503", page |-> ErrorPage]}
    \cup {[kind |-> "ok", page |-> pg] : pg \in Pages}

\* a fetch that reads the body of an error answer as well
scrapeWithFetchKeepsBody(outcome) ==
    CASE outcome.kind = "ok" -> parseHtml(outcome.page)
      [] outcome.kind = "status" ->
            [parseHtml(outcome.page) EXCEPT !.error = Msg(<<"HTTP", outcome.status>>)]
      [] outcome.kind = "throws" ->
            emptyResult(IF outcome.error.isError THEN outcome.error.message
                        ELSE Msg(<<"Failed", "to", "fetch", "website">>))

scrapeWithFetch(outcome) ==
    CASE outcome.kind = "ok" -> parseHtml(outcome.page)
      [] outcome.kind = "status" -> emptyResult(Msg(<<"HTTP", outcome.status>>))
      [] outcome.kind = "throws" ->
            emptyResult(IF outcome.error.isError THEN outcome.error.message
                        ELSE Msg(<<"Failed", "to", "fetch", "website">>))

scrapeWebsite(firecrawl, fetch) ==
    LET firecrawlResult == scrapeWithFirecrawl(firecrawl)
    IN IF firecrawlResult # JNull THEN firecrawlResult ELSE scrapeWithFetch(fetch)

\* a scrapeWebsite that issues the direct fetch in any case
scrapeWebsiteRequestsBoth(firecrawl, fetch) ==
    (IF firecrawl.kind = "nokey" THEN <<>> ELSE <<"firecrawl.scrape">>) \o <<"fetch">>

\* the requests scrapeWebsite issues, in order: firecrawl.scrape unless no
\* key is configured, then fetch when scrapeWithFirecrawl returned null
scrapeWebsiteRequests(firecrawl, fetch) ==
    (IF firecrawl.kind = "nokey" THEN <<>> ELSE <<"firecrawl.scrape">>)
    \o (IF scrapeWithFirecrawl(firecrawl) # JNull THEN <<>> ELSE <<"fetch">>)

\* what the extractor hands to the orchestrator
ScrapeResults ==
    {emptyResult(Msg(<<"HTTP", "503">>)), parseHtml(PlainPage), parseHtml(EmptyPage)}

(***************************************************************************)
(* Orchestrator: runAIEvaluation                                           *)
(***************************************************************************)
\* the catch block
EvalFailure(error) ==
    [success |-> FALSE, scores |-> JNull, reasoning |-> JNull, firstImpressions |-> JNull,
     recommendations |-> JNull, pageSpeedData |-> JNull, error |-> error.message,
     tokenUsage |-> JNull]

\* step 6
EvalSuccess(parsed, response, psd) ==
    [success |-> TRUE,
     scores |-> [k \in Range(productKeys) \cup Range(businessKeys) |->
                   IF k \in Range(productKeys)
                   THEN Prop(Prop(Prop(parsed, "product"), k), "score")
                   ELSE Prop(Prop(Prop(parsed, "business"), k), "score")],
     reasoning |-> [k \in Range(productKeys) \cup Range(businessKeys) \cup {"summary"} |->
                   IF k = "summary" THEN Prop(parsed, "summary")
                   ELSE IF k \in Range(productKeys)
                        THEN Prop(Prop(Prop(parsed, "product"), k), "reason")
                        ELSE Prop(Prop(Prop(parsed, "business"), k), "reason")],
     firstImpressions |-> Prop(parsed, "firstImpressions"),
     recommendations |-> Prop(parsed, "recommendations"),
     pageSpeedData |-> psd,
     error |-> JNull,
     tokenUsage |-> [input |-> response.inputTokens, output |-> response.outputTokens]]

\* a step 1 that gives up when neither audit request was answered
EvalAnalyzeNeedsData ==
    /\ e_pc = "audit"
    /\ \E m \in MobileFetches, d \in DesktopFetches :
          /\ pageSpeedData' = analyzeUrl(m, d)
          /\ IF m = NoData /\ d = NoData
             THEN /\ e_pc' = "done"
                  /\ evalResult' = [success |-> FALSE, scores |-> JNull, reasoning |-> JNull,
                                    firstImpressions |-> JNull, recommendations |-> JNull,
                                    pageSpeedData |-> JNull,
                                    error |-> Msg(<<"No", "audit", "data">>),
                                    tokenUsage |-> JNull]
             ELSE e_pc' = "scrape" /\ UNCHANGED evalResult
    /\ UNCHANGED scrapedContent
    /\ UNCHANGED claudeVars
    /\ UNCHANGED outsidePipeline

\* step 1
EvalAnalyze ==
    /\ e_pc = "audit"
    /\ \E m \in MobileFetches, d \in DesktopFetches : pageSpeedData' = analyzeUrl(m, d)
    /\ e_pc' = "scrape"
    /\ UNCHANGED <<scrapedContent, evalResult>>
    /\ UNCHANGED claudeVars
    /\ UNCHANGED outsidePipeline

\* steps 2 to 4: scrape (a failed scrape is only logged), build the input
\* and the prompt, call callClaude with the default retries
EvalScrapeAndCall ==
    /\ e_pc = "scrape"
    /\ \E sc \in ScrapeResults : scrapedContent' = sc
    /\ e_pc' = "generate"
    /\ c_pc' = "start"
    /\ retries' = DefaultRetries
    /\ UNCHANGED <<pageSpeedData, evalResult>>
    /\ UNCHANGED <<variant, apiKeySet, attempt, lastError, attempts, sleeps, claudeOut>>
    /\ UNCHANGED outsidePipeline

\* a try block that opens only at step 5
InTryFromStep5(stage) == stage \in {"parse", "validate", "return"}

\* the stages that run inside the try block
InTry(stage) == stage \in {"audit", "scrape", "prompt", "generate", "parse", "validate", "return"}

\* an exception thrown in a stage: caught if the stage is inside the try block
Throw(stage, error) ==
    IF InTry(stage)
    THEN e_pc' = "done" /\ evalResult' = EvalFailure(error)
    ELSE e_pc' = "raised" /\ evalResult' = [raised |-> error]

\* callClaude threw
EvalGenerationFailed ==
    /\ e_pc = "generate" /\ c_pc = "raised"
    /\ Throw("generate", claudeOut)
    /\ UNCHANGED <<pageSpeedData, scrapedContent>>
    /\ UNCHANGED claudeVars
    /\ UNCHANGED outsidePipeline

\* a step 5 that asks the generation client again after a parse failure
EvalParseFailedRetrying ==
    /\ e_pc = "generate" /\ c_pc = "returned"
    /\ ~parseJsonResponse(claudeOut.content).ok
    /\ c_pc' = "start"
    /\ UNCHANGED <<variant, apiKeySet, retries, attempt, lastError, attempts, sleeps, claudeOut>>
    /\ UNCHANGED evalVars
    /\ UNCHANGED outsidePipeline

\* step 5, parseJsonResponse threw
EvalParseFailed ==
    /\ e_pc = "generate" /\ c_pc = "returned"
    /\ ~parseJsonResponse(claudeOut.content).ok
    /\ Throw("parse", [message |-> parseJsonResponse(claudeOut.content).error])
    /\ UNCHANGED <<pageSpeedData, scrapedContent>>
    /\ UNCHANGED claudeVars
    /\ UNCHANGED outsidePipeline

\* step 5, the validator rejected: throw new Error('Invalid response structure from AI')
EvalInvalid ==
    /\ e_pc = "generate" /\ c_pc = "returned"
    /\ parseJsonResponse(claudeOut.content).ok
    /\ ~validateEvaluationResponse(parseJsonResponse(claudeOut.content).value)
    /\ Throw("validate", [message |-> Msg(<<"Invalid", "response", "structure", "from", "AI">>)])
    /\ UNCHANGED <<pageSpeedData, scrapedContent>>
    /\ UNCHANGED claudeVars
    /\ UNCHANGED outsidePipeline

\* steps 5 and 6
EvalReturn ==
    /\ e_pc = "generate" /\ c_pc = "returned"
    /\ parseJsonResponse(claudeOut.content).ok
    /\ validateEvaluationResponse(parseJsonResponse(claudeOut.content).value)
    /\ evalResult' = EvalSuccess(parseJsonResponse(claudeOut.content).value, claudeOut,
                                 [performance |-> pageSpeedData.performance,
                                  accessibility |-> pageSpeedData.accessibility,
                                  seo |-> pageSpeedData.seo,
                                  mobile |-> pageSpeedData.mobile])
    /\ e_pc' = "done"
    /\ UNCHANGED <<pageSpeedData, scrapedContent>>
    /\ UNCHANGED claudeVars
    /\ UNCHANGED outsidePipeline

(***************************************************************************)
(* Numbers.  A JavaScript number is an IEEE-754 binary64 value; the ones   *)
(* the overall score meets are zero and positive normal numbers.  Such a   *)
(* number is [hi, lo, e] with mantissa M = hi * 2^26 + lo,                 *)
(* 2^52 <= M < 2^53, and value M * 2^e; zero is [0, 0, 0].  Every          *)
(* operation rounds its exact result to nearest, ties to even.             *)
(***************************************************************************)
B12 == 2^12
B13 == 2^13
B25 == 2^25
B26 == 2^26
B27 == 2^27
B28 == 2^28

Zero == [hi |-> 0, lo |-> 0, e |-> 0]

RECURSIVE Normalize(_, _)
Normalize(h, e) ==
    IF h >= B26 THEN [hi |-> h, lo |-> 0, e |-> e] ELSE Normalize(2 * h, e - 1)

\* the number of a small integer literal or integer sum
FromInt(k) == IF k = 0 THEN Zero ELSE Normalize(k, -26)

\* Round N * 2^e to 53 bits, where N = h * 2^26 + l >= 2^53 and st tells
\* that the exact value lies strictly above N * 2^e (below (N + 1) * 2^e).
RECURSIVE RoundPack(_, _, _, _)
RoundPack(h, l, e, st) ==
    IF h >= B28
    THEN RoundPack(h \div 2, (h % 2) * B25 + l \div 2, e + 1, st \/ l % 2 = 1)
    ELSE LET guard == l % 2 = 1
             mh == h \div 2
             ml == (h % 2) * B25 + l \div 2
             up == guard /\ (st \/ ml % 2 = 1)
             ml1 == IF up THEN ml + 1 ELSE ml
             mh1 == IF ml1 = B26 THEN mh + 1 ELSE mh
             ml2 == IF ml1 = B26 THEN 0 ELSE ml1
         IN IF mh1 = B27
            THEN [hi |-> B26, lo |-> 0, e |-> e + 2]
            ELSE [hi |-> mh1, lo |-> ml2, e |-> e + 1]

\* [h, l, st] shifted right by d bits, st collecting the bits shifted out
RECURSIVE ShiftRight(_, _)
ShiftRight(w, d) ==
    IF d = 0 \/ (w.h = 0 /\ w.l = 0) THEN w
    ELSE ShiftRight([h |-> w.h \div 2,
                     l |-> (w.h % 2) * B25 + w.l \div 2,
                     st |-> w.st \/ w.l % 2 = 1], d - 1)

\* a + b
fadd(a, b) ==
    IF a = Zero THEN b
    ELSE IF b = Zero THEN a
    ELSE LET x == IF a.e >= b.e THEN a ELSE b
             y == IF a.e >= b.e THEN b ELSE a
             xh == x.hi * 4 + x.lo \div (B26 \div 4)
             xl == (x.lo * 4) % B26
             ys == ShiftRight([h |-> y.hi * 4 + y.lo \div (B26 \div 4),
                               l |-> (y.lo * 4) % B26,
                               st |-> FALSE], x.e - y.e)
             sl == xl + ys.l
         IN RoundPack(xh + ys.h + sl \div B26, sl % B26, x.e - 2, ys.st)

\* a * b
fmul(a, b) ==
    IF a = Zero \/ b = Zero THEN Zero
    ELSE LET a0 == a.lo % B13   a1 == a.lo \div B13
             a2 == a.hi % B13   a3 == a.hi \div B13
             b0 == b.lo % B13   b1 == b.lo \div B13
             b2 == b.hi % B13   b3 == b.hi \div B13
             c0 == a0 * b0
             c1 == a0 * b1 + a1 * b0 + c0 \div B13
             c2 == a0 * b2 + a1 * b1 + a2 * b0 + c1 \div B13
             c3 == a0 * b3 + a1 * b2 + a2 * b1 + a3 * b0 + c2 \div B13
             c4 == a1 * b3 + a2 * b2 + a3 * b1 + c3 \div B13
             c5 == a2 * b3 + a3 * b2 + c4 \div B13
             c6 == a3 * b3 + c5 \div B13
             d3 == c3 % B13
             \* bits 52 and up of the product, and bit 51 appended
             nl == 2 * ((c4 % B13) + (c5 % B13) * B13) + d3 \div B12
             nh == 2 * c6
             st == d3 % B12 # 0 \/ c2 % B13 # 0 \/ c1 % B13 # 0 \/ c0 % B13 # 0
         IN RoundPack(nh + nl \div B26, nl % B26, a.e + b.e + 51, st)

\* One step of the long division by b: r is the remainder, q the quotient
\* bits so far, n the number of quotient bits still to produce.  The test
\* before the next step only makes the step's values computed here.
RECURSIVE DivLoop(_, _, _)
DivLoop(d, b, n) ==
    IF n = 0 THEN d
    ELSE LET rh == 2 * d.rh + d.rl \div B25
             rl == (2 * d.rl) % B26
             ge == rh > b.hi \/ (rh = b.hi /\ rl >= b.lo)
             sh == IF ~ge THEN rh
                   ELSE IF rl >= b.lo THEN rh - b.hi ELSE rh - b.hi - 1
             sl == IF ~ge THEN rl
                   ELSE IF rl >= b.lo THEN rl - b.lo ELSE rl + B26 - b.lo
             ql == 2 * d.ql + (IF ge THEN 1 ELSE 0)
             qh == 2 * d.qh + ql \div B26
         IN IF sh >= 0 /\ sl >= 0 /\ qh >= 0 /\ n > 0
            THEN DivLoop([rh |-> sh, rl |-> sl, qh |-> qh, ql |-> ql % B26], b, n - 1)
            ELSE d

\* a / b for b # 0
fdiv(a, b) ==
    IF a = Zero THEN Zero
    ELSE LET ge == a.hi > b.hi \/ (a.hi = b.hi /\ a.lo >= b.lo)
             first == IF ~ge THEN [rh |-> a.hi, rl |-> a.lo, qh |-> 0, ql |-> 0]
                      ELSE IF a.lo >= b.lo
                           THEN [rh |-> a.hi - b.hi, rl |-> a.lo - b.lo, qh |-> 0, ql |-> 1]
                           ELSE [rh |-> a.hi - b.hi - 1, rl |-> a.lo + B26 - b.lo,
                                 qh |-> 0, ql |-> 1]
             d == DivLoop(first, b, 54)
         IN RoundPack(d.qh, d.ql, a.e - b.e - 54, d.rh # 0 \/ d.rl # 0)

(***************************************************************************)
(* Scoring engine.  A category score is the double sum / n of small        *)
(* integers; it is kept as the pair [sum, n].  Comparing it with an        *)
(* integer c is exact on the pair: division rounds monotonically and c is  *)
(* a double, so sum / n >= c in doubles exactly when sum >= c * n.         *)
(***************************************************************************)
Metrics ==
    {"usability", "value", "features", "polish", "competition",
     "market", "monetization", "maintenance", "growth",
     "passion", "learning", "pride"}

\* lowest and highest metric score (scoreSchema)
MinScore == 1
MaxScore == 10

NoScore == [none |-> TRUE]

RECURSIVE SumSeq(_)
SumSeq(q) == IF q = <<>> THEN 0 ELSE Head(q) + SumSeq(Tail(q))

\* a property that is absent from the scores object reads as undefined
UNDEFINED == -2

\* v == null
IsNullish(v) == v = NULL \/ v = UNDEFINED

NotNull(v) == ~IsNullish(v)

\* a mean that divides by the number of entries, present or not
avgOverAll(values) ==
    LET valid == SelectSeq(values, NotNull)
    IN IF Len(valid) = 0 THEN NoScore ELSE [sum |-> SumSeq(valid), n |-> Len(values)]

avg(values) ==
    LET valid == SelectSeq(values, NotNull)
    IN IF Len(valid) = 0 THEN NoScore ELSE [sum |-> SumSeq(valid), n |-> Len(valid)]

calculateProductScore(sc) ==
    avg(<<sc["usability"], sc["value"], sc["features"], sc["polish"], sc["competition"]>>)

\* a business score that takes maintenance as it is
calculateBusinessScoreNoInvert(sc) ==
    LET values == <<sc["market"], sc["monetization"], sc["growth"]>>
    IN avg(IF NotNull(sc["maintenance"]) THEN Append(values, sc["maintenance"]) ELSE values)

calculateBusinessScore(sc) ==
    LET values == <<sc["market"], sc["monetization"], sc["growth"]>>
    IN avg(IF NotNull(sc["maintenance"]) THEN Append(values, 10 - sc["maintenance"]) ELSE values)

calculatePersonalScore(sc) ==
    avg(<<sc["passion"], sc["learning"], sc["pride"]>>)

\* x ?? d for a metric
OrElse(x, d) == IF IsNullish(x) THEN d ELSE x

\* a threshold test that excludes the threshold itself
AtLeastStrict(score, c) == IF score = NoScore THEN 0 > c ELSE score.sum > c * score.n

\* (score ?? 0) >= c and (score ?? 0) < c for a category score
AtLeast(score, c) == IF score = NoScore THEN 0 >= c ELSE score.sum >= c * score.n
Below(score, c) == ~AtLeast(score, c)

\* a drop rule that misses value = 4
calculateRecommendationDropBelow4(sc) ==
    LET productScore == calculateProductScore(sc)
        businessScore == calculateBusinessScore(sc)
        valueScore == OrElse(sc["value"], 0)
        maintenanceScore == OrElse(sc["maintenance"], 5)
    IN IF valueScore >= 7 /\ AtLeast(businessScore, 7) THEN "invest"
       ELSE IF valueScore < 4 THEN "drop"
       ELSE IF maintenanceScore >= 7 /\ Below(productScore, 6) THEN "drop"
       ELSE IF valueScore >= 5 /\ maintenanceScore <= 4 THEN "keep"
       ELSE IF AtLeast(productScore, 6) /\ valueScore <= 5 THEN "pivot"
       ELSE "pause"

\* a keep rule that misses maintenance = 4
calculateRecommendationKeepBelow4(sc) ==
    LET productScore == calculateProductScore(sc)
        businessScore == calculateBusinessScore(sc)
        valueScore == OrElse(sc["value"], 0)
        maintenanceScore == OrElse(sc["maintenance"], 5)
    IN IF valueScore >= 7 /\ AtLeast(businessScore, 7) THEN "invest"
       ELSE IF valueScore <= 4 THEN "drop"
       ELSE IF maintenanceScore >= 7 /\ Below(productScore, 6) THEN "drop"
       ELSE IF valueScore >= 5 /\ maintenanceScore < 4 THEN "keep"
       ELSE IF AtLeast(productScore, 6) /\ valueScore <= 5 THEN "pivot"
       ELSE "pause"

\* the scoring module whose pivot rule reads value <= 5
calculateRecommendation001(sc) ==
    LET productScore == calculateProductScore(sc)
        businessScore == calculateBusinessScore(sc)
        valueScore == OrElse(sc["value"], 0)
        maintenanceScore == OrElse(sc["maintenance"], 5)
    IN IF valueScore >= 7 /\ AtLeast(businessScore, 7) THEN "invest"
       ELSE IF valueScore <= 4 THEN "drop"
       ELSE IF maintenanceScore >= 7 /\ Below(productScore, 6) THEN "drop"
       ELSE IF valueScore >= 5 /\ maintenanceScore <= 4 THEN "keep"
       ELSE IF AtLeast(productScore, 6) /\ valueScore <= 5 THEN "pivot"
       ELSE "pause"

\* a classifier of that module whose keep rule admits maintenance 5
calculateRecommendation000KeepAt5(sc) ==
    LET productScore == calculateProductScore(sc)
        businessScore == calculateBusinessScore(sc)
        valueScore == OrElse(sc["value"], 0)
        maintenanceScore == OrElse(sc["maintenance"], 5)
    IN IF valueScore >= 7 /\ AtLeast(businessScore, 7) THEN "invest"
       ELSE IF valueScore <= 4 THEN "drop"
       ELSE IF maintenanceScore >= 7 /\ Below(productScore, 6) THEN "drop"
       ELSE IF valueScore >= 5 /\ maintenanceScore <= 5 THEN "keep"
       ELSE IF AtLeast(productScore, 6) /\ valueScore < 5 THEN "pivot"
       ELSE "pause"

\* the scoring module whose pivot rule reads value < 5
calculateRecommendation000(sc) ==
    LET productScore == calculateProductScore(sc)
        businessScore == calculateBusinessScore(sc)
        valueScore == OrElse(sc["value"], 0)
        maintenanceScore == OrElse(sc["maintenance"], 5)
    IN IF valueScore >= 7 /\ AtLeast(businessScore, 7) THEN "invest"
       ELSE IF valueScore <= 4 THEN "drop"
       ELSE IF maintenanceScore >= 7 /\ Below(productScore, 6) THEN "drop"
       ELSE IF valueScore >= 5 /\ maintenanceScore <= 4 THEN "keep"
       ELSE IF AtLeast(productScore, 6) /\ valueScore < 5 THEN "pivot"
       ELSE "pause"

calculateRecommendation(sc) ==
    IF engine = "part_001" THEN calculateRecommendation001(sc) ELSE calculateRecommendation000(sc)

\* the metrics that may be present in an input besides value and
\* maintenance: the first MaxOtherMetrics of this list
OtherMetricOrder ==
    <<"usability", "market", "features", "monetization", "passion",
      "polish", "growth", "learning", "competition", "pride">>
FreeMetrics ==
    {"value", "maintenance"} \cup {OtherMetricOrder[i] : i \in 1..MaxOtherMetrics}

ScoreValues == {NULL} \cup (MinScore..MaxScore)

ScoreInputs ==
    {[k \in Metrics |-> IF k \in FreeMetrics THEN f[k] ELSE NULL] : f \in [FreeMetrics -> ScoreValues]}

ProductMetrics == {"usability", "value", "features", "polish", "competition"}
BusinessMetrics == {"market", "monetization", "growth", "maintenance"}
PersonalMetrics == {"passion", "learning", "pride"}

\* what a metric of a scores object may hold
MetricValues == {NULL, UNDEFINED} \cup (MinScore..MaxScore)

\* the scores object that holds f on the metrics of cat and omits the rest
ScoresOf(cat, f) == [k \in Metrics |-> IF k \in cat THEN f[k] ELSE UNDEFINED]

\* the three category scores, as computeAllScores takes them
Categories ==
    /\ scores # <<>>
    /\ ovIn = <<>>
    /\ ovIn' = [product |-> calculateProductScore(scores),
                business |-> calculateBusinessScore(scores),
                personal |-> calculatePersonalScore(scores)]
    /\ UNCHANGED ovOut
    /\ UNCHANGED <<claudeVars, evalVars, scoreVars, callVars, dbVars, projectVars, batchVars>>

Recommend ==
    /\ recommendation = "none"
    /\ recommendation' = calculateRecommendation(scores)
    /\ UNCHANGED <<engine, scores>>
    /\ UNCHANGED <<claudeVars, evalVars, overallVars, callVars, dbVars, projectVars, batchVars>>

(***************************************************************************)
(* Overall score.                                                          *)
(***************************************************************************)
\* the number avg returns for a category: sum / valid.length
avgNumber(score) ==
    IF score = NoScore THEN NoScore ELSE fdiv(FromInt(score.sum), FromInt(score.n))

\* the literals 0.5, 0.3 and 0.2
ProductWeight == fdiv(FromInt(1), FromInt(2))
BusinessWeight == fdiv(FromInt(3), FromInt(10))
PersonalWeight == fdiv(FromInt(1), FromInt(5))

IsPresent(s) == s.value # NoScore

RECURSIVE ReduceWeights(_, _)
ReduceWeights(entries, sum) ==
    IF entries = <<>> THEN sum
    ELSE ReduceWeights(Tail(entries), fadd(sum, Head(entries).weight))

WeightedTerm(s, totalWeight) == fdiv(fmul(s.value, s.weight), totalWeight)

RECURSIVE ReduceValues(_, _, _)
ReduceValues(entries, totalWeight, sum) ==
    IF entries = <<>> THEN sum
    ELSE ReduceValues(Tail(entries), totalWeight,
                      fadd(sum, WeightedTerm(Head(entries), totalWeight)))

calculateOverallScore(productScore, businessScore, personalScore) ==
    LET entries == SelectSeq(<<[value |-> productScore, weight |-> ProductWeight],
                               [value |-> businessScore, weight |-> BusinessWeight],
                               [value |-> personalScore, weight |-> PersonalWeight]>>,
                             IsPresent)
    IN IF Len(entries) = 0 THEN NoScore
       ELSE ReduceValues(entries, ReduceWeights(entries, Zero), Zero)

Smaller(a, b) == IF a <= b THEN a ELSE b

\* the means avg can return for a category of width metrics when at most
\* MaxCount of them are set
CategoryScores(width) ==
    {NoScore} \cup
    {[sum |-> t, n |-> k] : k \in 1..Smaller(MaxCount, width), t \in 0..(MaxCount * MaxScore)}

ProductScores ==
    {c \in CategoryScores(5) : c = NoScore \/ (c.sum >= c.n * MinScore /\ c.sum <= c.n * MaxScore)}

\* maintenance enters the business mean as 10 - maintenance, between 0 and 9
BusinessScores ==
    {c \in CategoryScores(4) : c = NoScore
        \/ (c.n <= 3 /\ c.sum >= c.n * MinScore /\ c.sum <= c.n * MaxScore)
        \/ (c.sum >= (c.n - 1) * MinScore /\ c.sum <= (c.n - 1) * MaxScore + (10 - MinScore))}

PersonalScores ==
    {c \in CategoryScores(3) : c = NoScore \/ (c.sum >= c.n * MinScore /\ c.sum <= c.n * MaxScore)}

Overall ==
    /\ ovIn # <<>>
    /\ ovOut = NoOut
    /\ ovOut' = calculateOverallScore(avgNumber(ovIn.product), avgNumber(ovIn.business),
                                      avgNumber(ovIn.personal))
    /\ UNCHANGED ovIn
    /\ UNCHANGED <<claudeVars, evalVars, scoreVars, callVars, dbVars, projectVars, batchVars>>

(***************************************************************************)
(* POST /api/evaluate                                                      *)
(***************************************************************************)
\* computeAllScores of the linked scoring module; the scores are numbers
computeAllScores(sc) ==
    LET productScore == avgNumber(calculateProductScore(sc))
        businessScore == avgNumber(calculateBusinessScore(sc))
        personalScore == avgNumber(calculatePersonalScore(sc))
    IN [productScore |-> productScore,
        businessScore |-> businessScore,
        personalScore |-> personalScore,
        overallScore |-> calculateOverallScore(productScore, businessScore, personalScore),
        recommendation |-> calculateRecommendation(sc)]

\* one decimal digit of a fraction (b * 2^26 + lo) / 2^(k + 26): the digit
\* and the fraction that is left
NextDigit(b, lo, k) ==
    LET u == 10 * b + (10 * lo) \div B26
    IN [digit |-> u \div 2^k, b |-> u % 2^k, lo |-> (10 * lo) % B26]

\* x.toFixed(2) in hundredths, for 0 or 1/2 <= x < 2^27: the integer n with
\* n / 100 - x closest to zero, the larger one of two
toFixed(x) ==
    IF x = Zero THEN 0
    ELSE LET k == (0 - x.e) - 26
             d1 == NextDigit(x.hi % 2^k, x.lo, k)
             d2 == NextDigit(d1.b, d1.lo, k)
         IN 100 * (x.hi \div 2^k) + 10 * d1.digit + d2.digit
            + (IF 2 * d2.b + d2.lo \div B25 >= 2^k THEN 1 ELSE 0)

\* computed.x?.toFixed(2), stored in a decimal column
OptionalToFixed(x) == IF x = NoScore THEN NULL ELSE toFixed(x)

\* the projects of the database, and a well-formed id of no project
ProjectIds == {"p1"}
Uuids == ProjectIds \cup {"p2"}
NoSession == "none"
Sessions == {NoSession, "u1"}

\* scoreSchema: z.number().int().min(1).max(10).optional()
scoreSchema(v) ==
    \/ v = Undefined
    \/ TypeOf(v) = "number" /\ v.n % 10 = 0 /\ v.n >= MinScore * 10 /\ v.n <= MaxScore * 10

\* createEvaluationSchema.safeParse(body).success
safeParse(body) ==
    /\ body.t = "object"
    /\ Prop(body, "projectId").t = "string"
    /\ Prop(body, "projectId").s \in Uuids
    /\ Prop(body, "scores").t = "object"
    /\ \A k \in Metrics : scoreSchema(Prop(Prop(body, "scores"), k))

\* result.data.scores: a missing metric is undefined
ParsedScores(body) ==
    [k \in Metrics |->
        IF Prop(Prop(body, "scores"), k) = Undefined THEN UNDEFINED
        ELSE Prop(Prop(body, "scores"), k).n \div 10]

\* an integer column given undefined holds NULL
Column(v) == IF v = UNDEFINED THEN NULL ELSE v

\* a row that holds the category scores in each other's columns
EvaluationRowSwapped(projectId, evaluatorId, sc, computed) ==
    [projectId |-> projectId,
     evaluatorId |-> evaluatorId,
     scores |-> [k \in Metrics |-> Column(sc[k])],
     productScore |-> OptionalToFixed(computed.businessScore),
     businessScore |-> OptionalToFixed(computed.productScore),
     personalScore |-> OptionalToFixed(computed.personalScore),
     overallScore |-> OptionalToFixed(computed.overallScore),
     recommendation |-> computed.recommendation]

\* the values of the insert
EvaluationRow(projectId, evaluatorId, sc, computed) ==
    [projectId |-> projectId,
     evaluatorId |-> evaluatorId,
     scores |-> [k \in Metrics |-> Column(sc[k])],
     productScore |-> OptionalToFixed(computed.productScore),
     businessScore |-> OptionalToFixed(computed.businessScore),
     personalScore |-> OptionalToFixed(computed.personalScore),
     overallScore |-> OptionalToFixed(computed.overallScore),
     recommendation |-> computed.recommendation]

\* the scores objects of the requests: no metric at all, a low and a high
\* value, a pair whose weighted mean is 6.625, an inverted maintenance and
\* one with all three categories
RequestScores ==
    {JObj(<<>>),
     JObj([value |-> JNum(40)]),
     JObj([value |-> JNum(70), market |-> JNum(80)]),
     JObj([usability |-> JNum(70), market |-> JNum(60)]),
     JObj([value |-> JNum(70), maintenance |-> JNum(80), passion |-> JNum(60)]),
     JObj([value |-> JNum(50), usability |-> JNum(60), polish |-> JNum(90),
           growth |-> JNum(10), learning |-> JNum(30), pride |-> JNum(100)])}

\* score values the schema refuses: null, 0, 11, 7.5 and a string
BadScoreValues == {JNull, JNum(0), JNum(110), JNum(75), JStr("7")}

Body(projectId, sc) == JObj([projectId |-> JStr(projectId), scores |-> sc])

\* what req.json() gives: bodies of existing and unknown projects, bodies
\* with one refused score or a malformed project id, a body that is no
\* object; "throws" is a request whose body is not JSON
RequestBodies ==
    {Body(p, sc) : p \in Uuids, sc \in RequestScores}
    \cup {Body("p1", JObj([value |-> v, passion |-> JNum(50)])) : v \in BadScoreValues}
    \cup {Body("not-a-uuid", JObj([value |-> JNum(70)])), JStr("scores")}

\* where the database fails in a request, if anywhere
DbFaults == {"none", "select", "insert", "update"}

\* the handler, from auth() to its answer
Post ==
    /\ Len(evaluations) < MaxEvaluations
    /\ \E session \in Sessions, parses \in BOOLEAN, body \in RequestBodies, fault \in DbFaults :
          IF session = NoSession
          THEN responseStatus' = 401 /\ UNCHANGED <<evaluations, projects>>
          ELSE IF ~parses
          THEN responseStatus' = 500 /\ UNCHANGED <<evaluations, projects>>
          ELSE IF ~safeParse(body)
          THEN responseStatus' = 400 /\ UNCHANGED <<evaluations, projects>>
          ELSE IF fault = "select"
          THEN responseStatus' = 500 /\ UNCHANGED <<evaluations, projects>>
          ELSE IF Prop(body, "projectId").s \notin ProjectIds
          THEN responseStatus' = 404 /\ UNCHANGED <<evaluations, projects>>
          ELSE IF fault = "insert"
          THEN responseStatus' = 500 /\ UNCHANGED <<evaluations, projects>>
          ELSE /\ evaluations' =
                    Append(evaluations,
                           EvaluationRow(Prop(body, "projectId").s, session, ParsedScores(body),
                                         computeAllScores(ParsedScores(body))))
               /\ IF fault = "update"
                  THEN responseStatus' = 500 /\ UNCHANGED projects
                  ELSE /\ projects' = [projects EXCEPT ![Prop(body, "projectId").s] = @ + 1]
                       /\ responseStatus' = 201
    /\ UNCHANGED <<claudeVars, evalVars, scoreVars, overallVars, callVars, projectVars, batchVars>>

(***************************************************************************)
(* POST /api/projects.  Every request is a process of its own: the handler *)
(* awaits the limit check and the insert separately and uses no            *)
(* transaction, so requests interleave between the two.                    *)
(***************************************************************************)
\* TIERS.free.limits.projects
FreeProjectLimit == 3

ProjectRequests == 1..MaxProjectRequests

\* limits.projects.canCreate, from the count getUserLimits reads
canCreateProject(projectsUsed) == projectsUsed < FreeProjectLimit

\* auth() and canCreateProject: 401 without a session, 403 at the limit
ProjectPostCheck(r) ==
    /\ p_pc[r] = "new"
    /\ \E session \in Sessions, fault \in BOOLEAN :
          IF session = NoSession
          THEN p_pc' = [p_pc EXCEPT ![r] = "done"] /\ p_status' = [p_status EXCEPT ![r] = 401]
          ELSE IF fault
          THEN p_pc' = [p_pc EXCEPT ![r] = "done"] /\ p_status' = [p_status EXCEPT ![r] = 500]
          ELSE IF ~canCreateProject(owned)
          THEN p_pc' = [p_pc EXCEPT ![r] = "done"] /\ p_status' = [p_status EXCEPT ![r] = 403]
          ELSE p_pc' = [p_pc EXCEPT ![r] = "insert"] /\ UNCHANGED p_status
    /\ UNCHANGED owned
    /\ UNCHANGED <<claudeVars, evalVars, scoreVars, overallVars, callVars, dbVars, batchVars>>

\* the body is read and validated and the row is inserted
ProjectPostInsert(r) ==
    /\ p_pc[r] = "insert"
    /\ p_pc' = [p_pc EXCEPT ![r] = "done"]
    /\ \E outcome \in {"invalid", "fault", "inserted"} :
          CASE outcome = "invalid" -> p_status' = [p_status EXCEPT ![r] = 400] /\ UNCHANGED owned
            [] outcome = "fault" -> p_status' = [p_status EXCEPT ![r] = 500] /\ UNCHANGED owned
            [] outcome = "inserted" ->
                  p_status' = [p_status EXCEPT ![r] = 201] /\ owned' = owned + 1
    /\ UNCHANGED <<claudeVars, evalVars, scoreVars, overallVars, callVars, dbVars, batchVars>>

(***************************************************************************)
(* useBatchEvaluation.  The hook state is queue, isProcessing and          *)
(* shouldProcess; React runs the effects after every commit and before the *)
(* next event, so every operation ends with the process-queue effect and   *)
(* the save effect.  A processItem call lives across its three requests as *)
(* a record of inflight.                                                   *)
(***************************************************************************)
NoProject == [item |-> 0, n |-> 0]
NoMessage == "undefined"
\* localStorage without the key; a saved queue is never empty
NoSaved == <<>>

\* an item as addToQueue makes it
NewItem(id) == [id |-> id, status |-> "pending", projectId |-> NoProject, error |-> NoMessage]

\* prev.map(item => item.id === itemId ? {...item, ...changes} : item)
SetStatus(q, itemId, status) ==
    [i \in 1..Len(q) |-> IF q[i].id = itemId THEN [q[i] EXCEPT !.status = status] ELSE q[i]]
SetEvaluating(q, itemId, projectId) ==
    [i \in 1..Len(q) |->
        IF q[i].id = itemId
        THEN [q[i] EXCEPT !.status = "evaluating", !.projectId = projectId] ELSE q[i]]
SetFailed(q, itemId, message) ==
    [i \in 1..Len(q) |->
        IF q[i].id = itemId
        THEN [q[i] EXCEPT !.status = "failed", !.error = message] ELSE q[i]]

\* the positions of the pending items
PendingAt(q) == {i \in 1..Len(q) : q[i].status = "pending"}

\* queue.find(item => item.status === 'pending')
FirstPending(q) == q[CHOOSE i \in PendingAt(q) : \A j \in PendingAt(q) : i <= j]

\* the hook state and the processItem calls as one value
Hook ==
    [queue |-> queue, isProcessing |-> isProcessing, shouldProcess |-> shouldProcess,
     inflight |-> inflight, created |-> created]

\* the first part of processItem, up to the first await: isProcessing is
\* set, the item is marked creating and POST /api/projects is issued
StartItem(h, itemId) ==
    [h EXCEPT !.isProcessing = TRUE,
              !.queue = SetStatus(h.queue, itemId, "creating"),
              !.inflight = @ \cup {[id |-> itemId, step |-> "create", projectId |-> NoProject]},
              !.created = [@ EXCEPT ![itemId] = @ + 1]]

\* a process-queue effect that does not look at isProcessing
ProcessQueueWhileBusy(h) ==
    IF ~h.shouldProcess THEN h
    ELSE IF PendingAt(h.queue) = {} THEN [h EXCEPT !.shouldProcess = FALSE]
    ELSE StartItem(h, FirstPending(h.queue).id)

\* the process-queue effect
ProcessQueue(h) ==
    IF ~h.shouldProcess \/ h.isProcessing THEN h
    ELSE IF PendingAt(h.queue) = {} THEN [h EXCEPT !.shouldProcess = FALSE]
    ELSE StartItem(h, FirstPending(h.queue).id)

\* the save effect: the queue is written to localStorage, an empty one removed
Saved(q) == IF Len(q) > 0 THEN q ELSE NoSaved

\* the state after the commit of h and its effects
Commit(h) ==
    /\ queue' = ProcessQueue(h).queue
    /\ isProcessing' = ProcessQueue(h).isProcessing
    /\ shouldProcess' = ProcessQueue(h).shouldProcess
    /\ inflight' = ProcessQueue(h).inflight
    /\ created' = ProcessQueue(h).created
    /\ storage' = Saved(ProcessQueue(h).queue)
    /\ UNCHANGED <<claudeVars, evalVars, scoreVars, overallVars, callVars, dbVars, projectVars>>

\* the ids crypto.randomUUID() has given out so far are 1..Len(created)
AddItems(h, n) ==
    [h EXCEPT !.queue = @ \o [i \in 1..n |-> NewItem(Len(h.created) + i)],
              !.created = @ \o [i \in 1..n |-> 0]]

AddToQueue ==
    \E n \in 1..MaxItems :
        /\ Len(created) + n <= MaxItems
        /\ Commit(AddItems(Hook, n))

StartProcessing == Commit([Hook EXCEPT !.shouldProcess = TRUE])

\* handleSubmit of the batch page: addToQueue and startProcessing in one event
HandleSubmit ==
    \E n \in 1..MaxItems :
        /\ Len(created) + n <= MaxItems
        /\ Commit([AddItems(Hook, n) EXCEPT !.shouldProcess = TRUE])

PauseProcessing ==
    /\ shouldProcess
    /\ Commit([Hook EXCEPT !.shouldProcess = FALSE])

\* the failed items become pending again and keep their projectId
RetryFailed ==
    /\ \A i \in 1..Len(queue) : queue[i].status = "failed" => created[queue[i].id] < MaxCreations
    /\ Commit([Hook EXCEPT !.shouldProcess = TRUE,
                           !.queue = [i \in 1..Len(queue) |->
                                        IF queue[i].status = "failed"
                                        THEN [queue[i] EXCEPT !.status = "pending",
                                                              !.error = NoMessage]
                                        ELSE queue[i]]])

ClearQueue ==
    /\ queue # <<>>
    /\ Commit([Hook EXCEPT !.queue = <<>>, !.shouldProcess = FALSE])

\* the catch block of processItem without its finally block
FailStaysBusy(h, inv, message) ==
    [h EXCEPT !.queue = SetFailed(h.queue, inv.id, message),
              !.inflight = @ \ {inv}]

\* the catch and finally blocks of processItem
Fail(h, inv, message) ==
    [h EXCEPT !.queue = SetFailed(h.queue, inv.id, message),
              !.inflight = @ \ {inv},
              !.isProcessing = FALSE]

\* POST /api/projects of a processItem call is answered, or fetch throws
CreateResponds ==
    \E inv \in inflight, ok \in BOOLEAN :
        /\ inv.step = "create"
        /\ IF ok
           THEN Commit([Hook EXCEPT
                          !.queue = SetEvaluating(queue, inv.id,
                                                  [item |-> inv.id, n |-> created[inv.id]]),
                          !.inflight = (@ \ {inv}) \cup
                              {[id |-> inv.id, step |-> "evaluate",
                                projectId |-> [item |-> inv.id, n |-> created[inv.id]]]}])
           ELSE Commit(Fail(Hook, inv, "Failed to create project"))

\* POST /api/ai-evaluate is answered
EvaluateResponds ==
    \E inv \in inflight, ok \in BOOLEAN :
        /\ inv.step = "evaluate"
        /\ IF ok
           THEN Commit([Hook EXCEPT !.inflight = (@ \ {inv}) \cup {[inv EXCEPT !.step = "save"]}])
           ELSE Commit(Fail(Hook, inv, "AI evaluation failed"))

\* POST /api/evaluate is answered
SaveResponds ==
    \E inv \in inflight, ok \in BOOLEAN :
        /\ inv.step = "save"
        /\ IF ok
           THEN Commit([Hook EXCEPT !.queue = SetStatus(queue, inv.id, "completed"),
                                    !.inflight = @ \ {inv},
                                    !.isProcessing = FALSE])
           ELSE Commit(Fail(Hook, inv, "Failed to save evaluation"))

\* the items as the mount effect restores them from localStorage
Restored(saved) ==
    IF saved = NoSaved THEN <<>>
    ELSE [i \in 1..Len(saved) |->
            IF saved[i].status \in {"creating", "evaluating"}
            THEN [saved[i] EXCEPT !.status = "pending"] ELSE saved[i]]

\* the page is loaded again: the state is initial, the running processItem
\* calls are gone with the old page, the queue is restored
Reload ==
    /\ \A id \in 1..Len(created) : created[id] < MaxCreations
    /\ Commit([Hook EXCEPT !.queue = Restored(storage), !.isProcessing = FALSE,
                           !.shouldProcess = FALSE, !.inflight = {}])

(***************************************************************************)
(* Specifications                                                          *)
(***************************************************************************)
ClaudeIdle ==
    /\ variant \in {"anthropic", "xai"}
    /\ apiKeySet \in BOOLEAN
    /\ attempt = 0
    /\ lastError = NoError
    /\ attempts = <<>>
    /\ sleeps = <<>>
    /\ claudeOut = NoOut

EvalIdle ==
    /\ e_pc = "idle"
    /\ pageSpeedData = NoOut
    /\ scrapedContent = NoOut
    /\ evalResult = NoOut

CallIdle == call = <<>> /\ ret = NoOut

\* no POST /api/projects request and no project of the user
ProjectsIdle ==
    /\ owned = 0
    /\ p_pc = <<>>
    /\ p_status = <<>>

\* the batch hook before it is mounted
BatchIdle ==
    /\ queue = <<>>
    /\ isProcessing = FALSE
    /\ shouldProcess = FALSE
    /\ inflight = {}
    /\ storage = NoSaved
    /\ created = <<>>

\* the tables before any request: no evaluation, the known projects untouched
DbIdle ==
    /\ evaluations = <<>>
    /\ projects = [p \in ProjectIds |-> 0]
    /\ responseStatus = 0

ScoringIdle ==
    /\ engine = "part_001"
    /\ scores = <<>>
    /\ recommendation = "none"
    /\ ovIn = <<>>
    /\ ovOut = NoOut

\* callClaude called on its own, with any retries option up to the bound
InitClaude ==
    /\ DbIdle
    /\ ProjectsIdle
    /\ BatchIdle
    /\ ClaudeIdle
    /\ retries \in 0..MaxRetries
    /\ c_pc = "start"
    /\ EvalIdle
    /\ ScoringIdle
    /\ CallIdle

NextClaude == ClaudeStart \/ ClaudeAttemptOk \/ ClaudeAttemptFail \/ ClaudeWake

SpecClaude == InitClaude /\ [][NextClaude]_vars

\* the timers and the requests of a running call complete
FairClaude == SpecClaude /\ WF_vars(NextClaude)

\* one run of runAIEvaluation
InitEval ==
    /\ DbIdle
    /\ ProjectsIdle
    /\ BatchIdle
    /\ ClaudeIdle
    /\ retries = DefaultRetries
    /\ c_pc = "idle"
    /\ e_pc = "audit"
    /\ pageSpeedData = NoOut
    /\ scrapedContent = NoOut
    /\ evalResult = NoOut
    /\ ScoringIdle
    /\ CallIdle

NextEval ==
    \/ EvalAnalyze \/ EvalScrapeAndCall
    \/ ClaudeStart \/ ClaudeAttemptOk \/ ClaudeAttemptFail \/ ClaudeWake
    \/ EvalGenerationFailed \/ EvalParseFailed \/ EvalInvalid \/ EvalReturn

SpecEval == InitEval /\ [][NextEval]_vars

ClaudeOff ==
    /\ variant = "xai" /\ apiKeySet = TRUE /\ retries = DefaultRetries /\ c_pc = "idle"
    /\ attempt = 0 /\ lastError = NoError /\ attempts = <<>> /\ sleeps = <<>> /\ claudeOut = NoOut

\* calculateRecommendation applied to one scores map, by either module
InitScoring ==
    /\ DbIdle
    /\ ProjectsIdle
    /\ BatchIdle
    /\ ClaudeOff
    /\ EvalIdle
    /\ engine \in {"part_000", "part_001"}
    /\ scores \in ScoreInputs
    /\ recommendation = "none"
    /\ ovIn = <<>>
    /\ ovOut = NoOut
    /\ CallIdle

NextScoring == Recommend

SpecScoring == InitScoring /\ [][NextScoring]_vars

\* one of the two validators applied to one parsed response
Validate ==
    /\ call # <<>>
    /\ call.fn = "validateEvaluationResponse"
    /\ ret = NoOut
    /\ ret' = [value |-> IF call.variant = "old"
                         THEN validateEvaluationResponseOld(call.arg)
                         ELSE validateEvaluationResponse(call.arg)]
    /\ UNCHANGED call
    /\ UNCHANGED <<claudeVars, evalVars, scoreVars, overallVars, dbVars, projectVars, batchVars>>

InitValidate ==
    /\ DbIdle
    /\ ProjectsIdle
    /\ BatchIdle
    /\ ClaudeOff
    /\ EvalIdle
    /\ ScoringIdle
    /\ call \in [fn : {"validateEvaluationResponse"}, variant : {"old", "current"},
                 arg : ValidateDocs]
    /\ ret = NoOut

NextValidate == Validate

SpecValidate == InitValidate /\ [][NextValidate]_vars

\* a response whose summary holds the given content between two words
FencedSummaryDoc(inner) ==
    Document(GoodImpressions, ProductOf(Distinct, "", Undefined),
             BusinessOf(Distinct, "", Undefined), GoodRecs,
             [t |-> "string", s |-> "see", inner |-> inner])

\* the text of such a response
SplitText(inner) ==
    <<DocHead(FencedSummaryDoc(inner))>> \o inner \o <<DocTail(FencedSummaryDoc(inner))>>

\* what the summary may hold: one fence, a fenced word, a fenced document
FencedInners ==
    {<<Fence>>,
     <<Fence, Prose, Fence>>,
     <<Fence, JsonTag, Ws, DocTok(JArr(<<>>)), Ws, Fence>>,
     <<Fence, DocTok(JNum(10)), Fence, Ws, Fence>>}

\* valid JSON texts
JsonTexts ==
    {<<DocTok(d)>> : d \in Docs}
    \cup {<<Ws, DocTok(d), Ws>> : d \in Docs}
    \cup {SplitText(inner) : inner \in FencedInners}

\* a text wrapped in a fenced code block
Wraps == {"fence", "fence-newline", "json", "json-newline"}
Wrapped(j, wrap) ==
    CASE wrap = "fence" -> <<Fence>> \o j \o <<Fence>>
      [] wrap = "fence-newline" -> <<Fence, Ws>> \o j \o <<Ws, Fence>>
      [] wrap = "json" -> <<Fence, JsonTag>> \o j \o <<Fence>>
      [] wrap = "json-newline" -> <<Fence, JsonTag, Ws>> \o j \o <<Ws, Fence>>

\* parseJsonResponse applied to a text and to the text wrapped; a throw is
\* kept as the failure record
Parse ==
    /\ call # <<>>
    /\ call.fn = "parseJsonResponse"
    /\ ret = NoOut
    /\ ret' = [plain |-> parseJsonResponse(call.arg),
               wrapped |-> parseJsonResponse(Wrapped(call.arg, call.wrap))]
    /\ UNCHANGED call
    /\ UNCHANGED <<claudeVars, evalVars, scoreVars, overallVars, dbVars, projectVars, batchVars>>

InitParse ==
    /\ DbIdle
    /\ ProjectsIdle
    /\ BatchIdle
    /\ ClaudeOff
    /\ EvalIdle
    /\ ScoringIdle
    /\ call \in [fn : {"parseJsonResponse"}, arg : JsonTexts, wrap : Wraps]
    /\ ret = NoOut

NextParse == Parse

SpecParse == InitParse /\ [][NextParse]_vars

\* the audit answers analyzeUrl is applied to
AuditProfiles ==
    {AuditsAll(100), AuditsAll(50), AuditsAll(0), AuditsAll(NULL), AuditsAll(ABSENT),
     [AuditsAll(100) EXCEPT !["is-on-https"] = 0, !["errors-in-console"] = 0,
                            !["tap-targets"] = 50]}
AuditMobileFetches ==
    {NoData} \cup {PageSpeed(pf, 90, 80, au) : pf \in {NULL, 0, 55}, au \in AuditProfiles}
AuditDesktopFetches ==
    {NoData} \cup {PageSpeed(pf, 95, 80, AuditsAll(100)) : pf \in {NULL, 0, 90}}

\* analyzeUrl with one pair of answers of the audit service
Analyze ==
    /\ call # <<>>
    /\ call.fn = "analyzeUrl"
    /\ ret = NoOut
    /\ ret' = analyzeUrl(call.mobileData, call.desktopData)
    /\ UNCHANGED call
    /\ UNCHANGED <<claudeVars, evalVars, scoreVars, overallVars, dbVars, projectVars, batchVars>>

InitAudit ==
    /\ DbIdle
    /\ ProjectsIdle
    /\ BatchIdle
    /\ ClaudeOff
    /\ EvalIdle
    /\ ScoringIdle
    /\ call \in [fn : {"analyzeUrl"}, mobileData : AuditMobileFetches,
                 desktopData : AuditDesktopFetches]
    /\ ret = NoOut

NextAudit == Analyze

SpecAudit == InitAudit /\ [][NextAudit]_vars

\* any sequence of POST /api/evaluate requests, with either scoring module
InitEvaluate ==
    /\ ClaudeOff
    /\ EvalIdle
    /\ engine \in {"part_000", "part_001"}
    /\ scores = <<>>
    /\ recommendation = "none"
    /\ ovIn = <<>>
    /\ ovOut = NoOut
    /\ CallIdle
    /\ DbIdle
    /\ ProjectsIdle
    /\ BatchIdle

NextEvaluate == Post

SpecEvaluate == InitEvaluate /\ [][NextEvaluate]_vars

\* the requests of one free-tier user who owns up to the limit already
InitProjects ==
    /\ ClaudeOff
    /\ EvalIdle
    /\ ScoringIdle
    /\ CallIdle
    /\ DbIdle
    /\ BatchIdle
    /\ owned \in 0..FreeProjectLimit
    /\ p_pc = [r \in ProjectRequests |-> "new"]
    /\ p_status = [r \in ProjectRequests |-> 0]

NextProjects ==
    \/ \E r \in ProjectRequests : ProjectPostCheck(r)
    \/ \E r \in ProjectRequests : ProjectPostInsert(r)

SpecProjects == InitProjects /\ [][NextProjects]_vars

\* the batch hook under the calls of its user and the answers of the server
InitBatch ==
    /\ ClaudeOff
    /\ EvalIdle
    /\ ScoringIdle
    /\ CallIdle
    /\ DbIdle
    /\ ProjectsIdle
    /\ BatchIdle

NextBatch ==
    \/ AddToQueue \/ StartProcessing \/ HandleSubmit \/ PauseProcessing
    \/ RetryFailed \/ ClearQueue
    \/ CreateResponds \/ EvaluateResponds \/ SaveResponds

SpecBatch == InitBatch /\ [][NextBatch]_vars

\* every HTTP request is answered eventually
FairBatch ==
    SpecBatch /\ WF_vars(CreateResponds) /\ WF_vars(EvaluateResponds) /\ WF_vars(SaveResponds)

\* the same with page reloads
NextBatchReload == NextBatch \/ Reload

SpecBatchReload == InitBatch /\ [][NextBatchReload]_vars

\* scrapeWebsite in one environment
Scrape ==
    /\ call # <<>>
    /\ call.fn = "scrapeWebsite"
    /\ ret = NoOut
    /\ ret' = scrapeWebsite(call.firecrawl, call.fetch)
    /\ call' = [call EXCEPT !.requests = scrapeWebsiteRequests(call.firecrawl, call.fetch)]
    /\ UNCHANGED <<claudeVars, evalVars, scoreVars, overallVars, dbVars, projectVars, batchVars>>

InitScrape ==
    /\ DbIdle
    /\ ProjectsIdle
    /\ BatchIdle
    /\ ClaudeOff
    /\ EvalIdle
    /\ ScoringIdle
    /\ call \in [fn : {"scrapeWebsite"}, firecrawl : FirecrawlOutcomes, fetch : FetchOutcomes,
                 requests : {<<>>}]
    /\ ret = NoOut

NextScrape == Scrape

SpecScrape == InitScrape /\ [][NextScrape]_vars

\* the category scores of one scores object
InitCategories ==
    /\ DbIdle
    /\ ProjectsIdle
    /\ BatchIdle
    /\ ClaudeOff
    /\ EvalIdle
    /\ engine = "part_001"
    /\ \E cat \in {ProductMetrics, BusinessMetrics, PersonalMetrics} :
          \E f \in [cat -> MetricValues] : scores = ScoresOf(cat, f)
    /\ recommendation = "none"
    /\ ovIn = <<>>
    /\ ovOut = NoOut
    /\ CallIdle

NextCategories == Categories

SpecCategories == InitCategories /\ [][NextCategories]_vars

\* calculateOverallScore applied to one triple of category scores
InitOverall ==
    /\ DbIdle
    /\ ProjectsIdle
    /\ BatchIdle
    /\ ClaudeOff
    /\ EvalIdle
    /\ engine = "part_001"
    /\ scores = <<>>
    /\ recommendation = "none"
    /\ ovIn \in [product : ProductScores, business : BusinessScores, personal : PersonalScores]
    /\ ovOut = NoOut
    /\ CallIdle

NextOverall == Overall

SpecOverall == InitOverall /\ [][NextOverall]_vars

(***************************************************************************)
(* Properties                                                              *)
(***************************************************************************)
AIKeys == Range(productKeys) \cup Range(businessKeys)

\* C1: runAIEvaluation never raises to its caller, and every result it
\* returns is either a success (success = true, scores non-null, error null)
\* or a failure (success = false, error a string, and scores, reasoning,
\* firstImpressions, recommendations and tokenUsage all null).
C1_ResultShape ==
    /\ e_pc # "raised"
    /\ e_pc = "done" =>
          /\ evalResult.success \in BOOLEAN
          /\ evalResult.success <=> (evalResult.scores # JNull /\ evalResult.error = JNull)
          /\ (~evalResult.success) <=>
                /\ evalResult.error.t = "string"
                /\ evalResult.scores = JNull
                /\ evalResult.reasoning = JNull
                /\ evalResult.firstImpressions = JNull
                /\ evalResult.recommendations = JNull
                /\ evalResult.tokenUsage = JNull

\* a run in which the audit and the extraction failed, the generation call
\* succeeded and the response was rejected: it ended with a failure result
C1_Witness ==
    /\ e_pc = "done" /\ ~evalResult.success
    /\ c_pc = "returned"
    /\ pageSpeedData.performance = NULL
    /\ scrapedContent.error # JNull

\* C2: every success result carries, for each of the nine AI metrics, a
\* number in [1,10] that is the score of that metric in the parsed response
\* of the generation call, and that response passed the validator.
C2_ScoresFromValidated ==
    (e_pc = "done" /\ evalResult.success) =>
        LET parsed == parseJsonResponse(claudeOut.content)
        IN /\ parsed.ok
           /\ validateEvaluationResponse(parsed.value)
           /\ DOMAIN evalResult.scores = AIKeys
           /\ \A k \in AIKeys :
                 LET group == IF k \in Range(productKeys) THEN "product" ELSE "business"
                 IN /\ evalResult.scores[k].t = "number"
                    /\ evalResult.scores[k].n >= 10 /\ evalResult.scores[k].n <= 100
                    /\ evalResult.scores[k] = parsed.value.f[group].f[k].f.score

\* a success whose nine scores are all different
C2_Witness ==
    /\ e_pc = "done" /\ evalResult.success
    /\ \A k \in AIKeys : evalResult.scores[k] = JNum(Distinct[k])

\* the reply of a request: failed for a transient reason / carried a text
Transient(reply) ==
    \/ reply.k = "network"
    \/ reply.k = "http" /\ reply.status = 500 /\ reply.errorText = <<>>
    \/ reply.k = "apiError" /\ reply.status \in {0, 500}
HasText(reply) ==
    \/ reply.k = "message" /\ reply.hasText
    \/ reply.k = "body" /\ reply.hasContent /\ reply.content # <<>>
TextOf(reply) == IF reply.k = "message" THEN reply.text ELSE reply.content
TokensOf(reply) ==
    IF reply.k = "body" /\ ~reply.hasUsage THEN [input |-> 0, output |-> 0] ELSE reply.usage

\* C3: with retries = 2, after two transient failures the third request is
\* sent, and when it succeeds callClaude returns the content and the token
\* counts of that third response.
C3_ThirdAttemptWins ==
    (retries = DefaultRetries /\ Len(attempts) >= 2 /\ Transient(attempts[1]) /\ Transient(attempts[2])) =>
        /\ Len(attempts) = 2 => c_pc \in {"sleep", "request"}
        /\ (Len(attempts) = 3 /\ HasText(attempts[3])) =>
              /\ c_pc = "returned"
              /\ claudeOut.content = TextOf(attempts[3])
              /\ claudeOut.inputTokens = TokensOf(attempts[3]).input
              /\ claudeOut.outputTokens = TokensOf(attempts[3]).output

C3_Witness ==
    /\ retries = DefaultRetries /\ Len(attempts) = 3 /\ c_pc = "returned"
    /\ Transient(attempts[1]) /\ Transient(attempts[2])
    /\ claudeOut.content = <<Fence, JsonTag, Ws, DocTok(DocWith(Distinct, "", Undefined)), Ws, Fence>>

\* the reply is an HTTP error with the given status
HasStatus(reply, codes) == reply.k \in {"http", "apiError"} /\ reply.status \in codes
Failed(reply) == ~HasText(reply)

\* the shape shared by the statements about errors that are not retried:
\* a failure in class fatal is the last request, is raised, and no sleep
\* follows it; any other failure with attempts remaining is followed by a
\* sleep or a further request
NoRetryRule(fatal(_)) ==
    \A i \in DOMAIN attempts :
        Failed(attempts[i]) =>
            IF fatal(attempts[i])
            THEN /\ i = Len(attempts)
                 /\ c_pc = "raised"
                 /\ claudeOut = Attempt(variant, attempts[i]).error
                 /\ Len(sleeps) < i
            ELSE i <= retries => (i < Len(attempts) \/ c_pc \in {"sleep", "request"})

C4_ClaimedFatal(reply) == HasStatus(reply, {400, 401})

C4_ActualFatal(reply) ==
    IF variant = "anthropic"
    THEN HasStatus(reply, {400, 401})
    ELSE reply.k = "http" /\ (reply.status \in {401, 403}
                              \/ \E i \in DOMAIN reply.errorText : reply.errorText[i] \in {"401", "403"})

C5_Bounded ==
    /\ Len(attempts) <= retries + 1
    /\ (Len(attempts) = retries + 1 /\ Failed(attempts[Len(attempts)])) =>
          /\ c_pc = "raised"
          /\ claudeOut = Attempt(variant, attempts[Len(attempts)]).error
    /\ Len(attempts) <= Len(sleeps) + 1
    /\ \A j \in DOMAIN sleeps :
          /\ j <= retries
          /\ j <= Len(attempts) /\ Failed(attempts[j])
          /\ sleeps[j].after = j - 1
          /\ sleeps[j].ms = 1000 * 2 ^ (j - 1)
    /\ c_pc \in {"returned", "raised"} => Len(sleeps) = Len(attempts) - 1 \/ attempts = <<>>

\* C5: for every retries >= 0 callClaude sends at most retries + 1 requests
\* and then returns or raises, raising the last error when every request
\* failed, and sleeping 1000 * 2^k ms only between request k and k + 1.
C5_BoundedAndTerminates == []C5_Bounded /\ <>(c_pc \in {"returned", "raised"})

\* every allowed request failed and the last error was raised after two sleeps
C5_Witness ==
    /\ retries = 2 /\ Len(attempts) = 3 /\ c_pc = "raised"
    /\ \A i \in 1..3 : Transient(attempts[i])
    /\ Len(sleeps) = 2 /\ sleeps[2].ms = 2000


(***************************************************************************)
(* Recommendation classifier: the rules as stated, over the category means *)
(* the scoring module computes.                                            *)
(***************************************************************************)
Recommended == recommendation # "none"
ValueOf == IF scores["value"] = NULL THEN 0 ELSE scores["value"]
MaintenanceOf == IF scores["maintenance"] = NULL THEN 5 ELSE scores["maintenance"]

\* the mean of a category is at least c; an absent category counts as 0
MeanGE(score, c) == score # NoScore /\ score.sum >= c * score.n

InvestRule == ValueOf >= 7 /\ MeanGE(calculateBusinessScore(scores), 7)
DropRule ==
    \/ ValueOf <= 4
    \/ MaintenanceOf >= 7 /\ ~MeanGE(calculateProductScore(scores), 6)
KeepRule == ValueOf >= 5 /\ MaintenanceOf <= 4
\* the pivot rule of the linked module: the two modules differ at value = 5
PivotRule ==
    /\ MeanGE(calculateProductScore(scores), 6)
    /\ IF engine = "part_001" THEN ValueOf <= 5 ELSE ValueOf < 5

\* C6: whenever value is absent or at most 4 the recommendation is drop,
\* whatever the other metrics are.
C6_LowValueDrops ==
    (Recommended /\ scores["value"] \in {NULL} \cup (MinScore..4))
        => recommendation = "drop"

\* value 4 with every other free metric as favourable as it can be
C6_Witness ==
    /\ Recommended
    /\ scores["value"] = 4
    /\ scores["maintenance"] = 1
    /\ \A k \in FreeMetrics \ {"value", "maintenance"} : scores[k] = MaxScore
    /\ recommendation = "drop"

\* C7: invest if value >= 7 and businessScore >= 7; otherwise drop if
\* value <= 4 or (maintenance >= 7 and productScore < 6); otherwise keep if
\* value >= 5 and maintenance <= 4; the first matching rule wins.
C7_Precedence ==
    Recommended =>
        /\ InvestRule => recommendation = "invest"
        /\ (~InvestRule /\ DropRule) => recommendation = "drop"
        /\ (~InvestRule /\ ~DropRule /\ KeepRule) => recommendation = "keep"

\* invest at both boundaries (value 7, business mean exactly 7) while the
\* keep rule matches as well
C7_Witness ==
    /\ Recommended
    /\ scores["value"] = 7
    /\ scores["maintenance"] = 3
    /\ scores["market"] = 7
    /\ KeepRule
    /\ recommendation = "invest"

\* C8: pivot for productScore >= 6, value = 5 and maintenance > 4 (also
\* when maintenance >= 7); keep for the same with maintenance <= 4; drop
\* for value <= 4.
C8_PivotAtFive ==
    (Recommended /\ MeanGE(calculateProductScore(scores), 6)) =>
        /\ (ValueOf = 5 /\ MaintenanceOf > 4) => recommendation = "pivot"
        /\ (ValueOf = 5 /\ MaintenanceOf <= 4) => recommendation = "keep"
        /\ ValueOf <= 4 => recommendation = "drop"

\* C9: the result is one of the five recommendations, it is pause exactly
\* when no invest, drop, keep or pivot rule matches, and in particular it is
\* pause for value >= 6 with maintenance 5 or 6 (or absent) when invest
\* does not match, and for value = 5 with maintenance 5 or 6 and
\* productScore < 6.
C9_PauseIsDefault ==
    Recommended =>
        /\ recommendation \in {"invest", "keep", "pivot", "pause", "drop"}
        /\ recommendation = "pause"
             <=> (~InvestRule /\ ~DropRule /\ ~KeepRule /\ ~PivotRule)
        /\ (ValueOf >= 6 /\ MaintenanceOf \in {5, 6} /\ ~InvestRule)
             => recommendation = "pause"
        /\ (ValueOf = 5 /\ MaintenanceOf \in {5, 6}
               /\ ~MeanGE(calculateProductScore(scores), 6))
             => recommendation = "pause"

\* pause with a high product score: value 6, maintenance absent
C9_Witness ==
    /\ Recommended
    /\ scores["value"] = 6
    /\ scores["maintenance"] = NULL
    /\ scores["usability"] = MaxScore
    /\ recommendation = "pause"


(***************************************************************************)
(* Overall score: the claim over the numbers the code computes.            *)
(***************************************************************************)
Computed == ovOut # NoOut
PresentIn == {k \in {"product", "business", "personal"} : ovIn[k] # NoScore}
WeightTenths(k) == IF k = "product" THEN 5 ELSE IF k = "business" THEN 3 ELSE 2

\* floor(x * 2^16) for a number x below 2^10
Fix16(x) == IF x = Zero \/ -x.e - 42 > 30 THEN 0 ELSE x.hi \div 2^(-x.e - 42)

\* x is the weighted mean of the present categories to within 2^-15:
\* the mean is num / den with
\*   num = sum of w[k] * sum[k] * (product of the other counts),
\*   den = (sum of w[k]) * (product of the counts).
CountOf(k) == IF ovIn[k] = NoScore THEN 1 ELSE ovIn[k].n
Counts == CountOf("product") * CountOf("business") * CountOf("personal")
MeanNum ==
    LET term(k) == IF ovIn[k] = NoScore THEN 0
                   ELSE WeightTenths(k) * ovIn[k].sum * (Counts \div ovIn[k].n)
    IN term("product") + term("business") + term("personal")
MeanDen ==
    LET w(k) == IF ovIn[k] = NoScore THEN 0 ELSE WeightTenths(k)
    IN (w("product") + w("business") + w("personal")) * Counts
IsWeightedMean(x) ==
    LET diff == Fix16(x) * MeanDen - MeanNum * 2^16
    IN diff <= 2 * MeanDen /\ -diff <= 2 * MeanDen

\* C10: the overall score is the weighted combination of the present
\* category scores with weights 0.5, 0.3, 0.2 divided by the sum of the
\* present weights; it is null exactly when all three inputs are null; and
\* with exactly one category present it is that category's score unchanged.
C10_WeightedMean ==
    Computed =>
        /\ ovOut = NoScore <=> PresentIn = {}
        /\ PresentIn # {} => (ovOut # NoScore /\ IsWeightedMean(ovOut))
        /\ \A k \in PresentIn : PresentIn = {k} => ovOut = avgNumber(ovIn[k])


(***************************************************************************)
(* Category scores: the mean of the present metrics, stated over the       *)
(* scores object.                                                          *)
(***************************************************************************)
Scored == ovIn # <<>>
PresentMetrics(cat) == {k \in cat : scores[k] \in MinScore..MaxScore}

\* the value a metric adds to a sum: nothing when it is not present
ValueIn(k) == IF scores[k] \in MinScore..MaxScore THEN scores[k] ELSE 0
InvertedIn(k) == IF scores[k] \in MinScore..MaxScore THEN 10 - scores[k] ELSE 0

\* score is total divided by the number of present metrics of cat, and null
\* when none is present
IsMeanOf(score, cat, total) ==
    LET present == PresentMetrics(cat)
    IN /\ score = NoScore <=> present = {}
       /\ present # {} =>
            (score # NoScore /\ score.n = Cardinality(present) /\ score.sum = total)

\* C11: the business score is the mean of the present values among market,
\* monetization, growth and 10 - maintenance; an absent or null maintenance
\* adds no term and is not counted; the score is null exactly when all four
\* are absent.
C11_BusinessMean ==
    Scored =>
        IsMeanOf(ovIn.business, BusinessMetrics,
                 ValueIn("market") + ValueIn("monetization") + ValueIn("growth")
                     + InvertedIn("maintenance"))

\* (7 + 6 + 5 + 8) / 4
C11_Witness ==
    /\ Scored
    /\ scores["market"] = 7 /\ scores["monetization"] = 6
    /\ scores["growth"] = 5 /\ scores["maintenance"] = 2
    /\ ovIn.business = [sum |-> 26, n |-> 4]

\* C12: the product and personal scores are the mean of exactly the present
\* ones of their metrics, null and undefined entries counting neither in
\* the sum nor in the divisor, and null exactly when none is present.
C12_ProductPersonalMean ==
    Scored =>
        /\ IsMeanOf(ovIn.product, ProductMetrics,
                    ValueIn("usability") + ValueIn("value") + ValueIn("features")
                        + ValueIn("polish") + ValueIn("competition"))
        /\ IsMeanOf(ovIn.personal, PersonalMetrics,
                    ValueIn("passion") + ValueIn("learning") + ValueIn("pride"))

\* (10 + 8) / 2 with one entry null and two undefined
C12_Witness ==
    /\ Scored
    /\ scores["usability"] = 10 /\ scores["features"] = 8
    /\ scores["value"] = NULL
    /\ scores["polish"] = UNDEFINED /\ scores["competition"] = UNDEFINED
    /\ ovIn.product = [sum |-> 18, n |-> 2]


(***************************************************************************)
(* Response validator                                                      *)
(***************************************************************************)
Validated == call # <<>> /\ call.fn = "validateEvaluationResponse" /\ ret # NoOut

\* the metric object of a parsed response under key k, Undefined if missing
MetricAt(data, k) ==
    Prop(Prop(data, IF k \in Range(productKeys) THEN "product" ELSE "business"), k)

ScoreDefect(m) ==
    \/ m = Undefined
    \/ Prop(m, "score").t # "number"
    \/ Prop(m, "score").n < 10
    \/ Prop(m, "score").n > 100

\* C13: a parsed response in which one of the nine metric objects is
\* missing, or has a score that is not a number, or a score below 1 or above
\* 10, is rejected.
C13_DefectRejected ==
    (Validated /\ \E k \in AIKeys : ScoreDefect(MetricAt(call.arg, k)))
        => ret.value = FALSE

\* an otherwise valid response whose growth score is 11
C13_Witness ==
    /\ Validated
    /\ call.variant = "current"
    /\ call.arg = DocWith(Distinct, "growth", Metric(110))
    /\ ret.value = FALSE

NonEmptyString(v) == v.t = "string" /\ v.s # ""

\* C14: in every accepted response the summary and all nine reasons are
\* non-empty strings.
C14_NonEmptyText ==
    (Validated /\ ret.value) =>
        /\ NonEmptyString(Prop(call.arg, "summary"))
        /\ \A k \in AIKeys : NonEmptyString(Prop(MetricAt(call.arg, k), "reason"))

\* C15: every score of a success result of runAIEvaluation is an integer in
\* [1,10] (scores are kept in tenths).
C15_IntegerScores ==
    (e_pc = "done" /\ evalResult.success) =>
        \A k \in AIKeys :
            /\ evalResult.scores[k].t = "number"
            /\ evalResult.scores[k].n \in {10 * i : i \in 1..10}


(***************************************************************************)
(* JSON extraction                                                         *)
(***************************************************************************)
ParsedBoth == call # <<>> /\ call.fn = "parseJsonResponse" /\ ret # NoOut

\* C16: for every valid JSON text, parsing it wrapped in a fenced code
\* block, with or without the json tag, gives what parsing it unwrapped
\* gives: the same value, or a failure on both sides.
C16_WrapInvariant ==
    ParsedBoth =>
        /\ ret.plain.ok <=> ret.wrapped.ok
        /\ ret.plain.ok => ret.plain.value = ret.wrapped.value


(***************************************************************************)
(* Content extraction                                                      *)
(***************************************************************************)
Scraped == call # <<>> /\ call.fn = "scrapeWebsite" /\ ret # NoOut

ScrapedContentFields ==
    {"title", "metaDescription", "headings", "mainContent", "hasPricing", "hasLogin",
     "technologies", "ctas", "hasSocialProof", "hasSecurityBadges", "hasVideo", "hasFaq",
     "error"}

\* C17: scrapeWebsite always returns a ScrapedContent, and when its error
\* is not null the title and the description are null, the headings, the
\* technologies and the calls to action are empty, the main content is the
\* empty string and the six feature flags are false.
C17_ErrorMeansEmpty ==
    Scraped =>
        /\ DOMAIN ret = ScrapedContentFields
        /\ ret.error # JNull =>
              /\ ret.title = JNull /\ ret.metaDescription = JNull
              /\ ret.headings = <<>> /\ ret.technologies = <<>> /\ ret.ctas = <<>>
              /\ ret.mainContent = 0
              /\ \A flag \in FeatureFlags : ret[flag] = FALSE

\* the rendering scrape raised and the direct fetch was answered 503
C17_Witness ==
    /\ Scraped
    /\ call.firecrawl.kind = "throws"
    /\ call.fetch.kind = "status" /\ call.fetch.status = "503"
    /\ ret.error = Msg(<<"HTTP", "503">>)
    /\ ret.mainContent = 0


(***************************************************************************)
(* Performance audit                                                       *)
(***************************************************************************)
Analyzed == call # <<>> /\ call.fn = "analyzeUrl" /\ ret # NoOut

\* C18: when both audit requests failed, every score of the report is null
\* and the issues list is empty.
C18_NoDataAllNull ==
    (Analyzed /\ call.mobileData = NoData /\ call.desktopData = NoData) =>
        /\ \A k \in {"performance", "accessibility", "seo", "mobile", "technical", "security"} :
              ret[k] = NULL
        /\ ret.issues = <<>>


(***************************************************************************)
(* Audit failure in a run                                                  *)
(***************************************************************************)
\* step 1 is over and neither audit request was answered
AuditFailed ==
    /\ pageSpeedData # NoOut
    /\ pageSpeedData.rawData.mobile = NoData
    /\ pageSpeedData.rawData.desktop = NoData

\* generation, parsing and validation all succeeded
GenerationUsable ==
    /\ c_pc = "returned"
    /\ parseJsonResponse(claudeOut.content).ok
    /\ validateEvaluationResponse(parseJsonResponse(claudeOut.content).value)

\* C19: a run whose two audit requests both failed is not aborted by that:
\* it ends only after the content extraction and the call of the generation
\* client, and with success = true whenever generation, parsing and
\* validation succeeded.
C19_AuditFailureNeverAborts ==
    (AuditFailed /\ e_pc \in {"done", "raised"}) =>
        /\ scrapedContent # NoOut
        /\ c_pc # "idle"
        /\ GenerationUsable => (e_pc = "done" /\ evalResult.success = TRUE)

\* a successful run without any audit data
C19_Witness ==
    /\ AuditFailed
    /\ e_pc = "done"
    /\ scrapedContent # NoOut
    /\ GenerationUsable
    /\ evalResult.success = TRUE
    /\ evalResult.pageSpeedData.performance = NULL


(***************************************************************************)
(* Stored evaluations                                                      *)
(***************************************************************************)
\* a mean sum / n to two decimals, in hundredths, half up
RoundedMean(score) ==
    IF score = NoScore THEN NULL ELSE (200 * score.sum + score.n) \div (2 * score.n)

\* the row agrees with the scores it stores
RowConsistent(row) ==
    /\ row.recommendation = calculateRecommendation(row.scores)
    /\ row.productScore = RoundedMean(calculateProductScore(row.scores))
    /\ row.businessScore = RoundedMean(calculateBusinessScore(row.scores))
    /\ row.personalScore = RoundedMean(calculatePersonalScore(row.scores))
    /\ row.overallScore = OptionalToFixed(computeAllScores(row.scores).overallScore)

\* the rows that were there are still there, unchanged and in place
AppendOnly ==
    /\ Len(evaluations') >= Len(evaluations)
    /\ \A i \in 1..Len(evaluations) : evaluations'[i] = evaluations[i]

\* a request answered 401, 400 or 404 left the table as it was
RejectedInsertsNothing ==
    responseStatus' \in {401, 400, 404} => evaluations' = evaluations

\* C20: after any sequence of POST /api/evaluate requests every stored row
\* has the recommendation calculateRecommendation gives for its twelve stored
\* scores and the product, business, personal and overall scores
\* computeAllScores gives for them, rounded to two decimals; a request only
\* ever appends a row, and appends none when it is answered 401, 400 or 404.
C20_RowsConsistent ==
    /\ [](\A i \in 1..Len(evaluations) : RowConsistent(evaluations[i]))
    /\ [][AppendOnly /\ RejectedInsertsNothing]_vars

\* a row was stored with an overall score of 6.625 stored as 6.63 and a
\* missing personal score, and a later request was answered 404
C20_Witness ==
    /\ Len(evaluations) = 1
    /\ responseStatus = 404
    /\ evaluations[1].scores["usability"] = 7
    /\ evaluations[1].scores["value"] = NULL
    /\ evaluations[1].overallScore = 663
    /\ evaluations[1].personalScore = NULL
    /\ evaluations[1].recommendation = "drop"


(***************************************************************************)
(* One generation call per run                                             *)
(***************************************************************************)
\* callClaude is entered in this step
ClaudeInvoked == c_pc' = "start" /\ c_pc # "start"

\* the response of callClaude did not parse or was rejected by the validator
ResponseUnusable ==
    /\ e_pc = "generate" /\ c_pc = "returned"
    /\ \/ ~parseJsonResponse(claudeOut.content).ok
       \/ ~validateEvaluationResponse(parseJsonResponse(claudeOut.content).value)

\* C21: a run invokes callClaude at most once: it is invoked only by the step
\* that leaves extraction, which a run takes once, and a response that does
\* not parse or does not validate ends the run with success = false in the
\* next step, with no further request.
C21_AtMostOneGeneration ==
    [][/\ ClaudeInvoked => (e_pc = "scrape" /\ e_pc' = "generate")
       /\ e_pc' = "scrape" => e_pc \in {"audit", "scrape"}
       /\ e_pc' = "audit" => e_pc = "audit"
       /\ ResponseUnusable =>
             /\ e_pc' = "done"
             /\ evalResult'.success = FALSE
             /\ attempts' = attempts
             /\ c_pc' = "returned"]_vars

\* a run that ended in failure on a response that did not parse, after
\* exactly one request
C21_Witness ==
    /\ e_pc = "done"
    /\ c_pc = "returned"
    /\ ~parseJsonResponse(claudeOut.content).ok
    /\ evalResult.success = FALSE
    /\ Len(attempts) = 1


(***************************************************************************)
(* Order of the audit and the extraction                                   *)
(***************************************************************************)
\* analyzeUrl has resolved
AuditCompleted == pageSpeedData # NoOut

\* scrapeWebsite has been called: the step that leaves "scrape" calls it
ExtractionStarted == e_pc \notin {"idle", "audit", "scrape"}

\* scrapeWebsite has resolved
ExtractionCompleted == scrapedContent # NoOut

\* C22: the extraction and the audit run concurrently: neither has completed
\* while the other has not been started, and both have completed when the
\* generation client is called.
C22_ExtractionAndAuditConcurrent ==
    /\ AuditCompleted => ExtractionStarted
    /\ c_pc # "idle" => (AuditCompleted /\ ExtractionCompleted)


(***************************************************************************)
(* Total failure of the extraction                                         *)
(***************************************************************************)
\* scrapedContent.error && !scrapedContent.mainContent
TotalExtractionFailure ==
    /\ scrapedContent # NoOut
    /\ scrapedContent.error # JNull
    /\ scrapedContent.mainContent = 0

\* C23: a run whose extraction failed totally (an error and empty main
\* content) is aborted: the generation client is not called and the run ends
\* with success = false.
C23_TotalFailureAborts ==
    TotalExtractionFailure =>
        /\ c_pc = "idle"
        /\ e_pc = "done" => evalResult.success = FALSE


(***************************************************************************)
(* Order of the scraping strategies                                        *)
(***************************************************************************)
\* how often a request was issued
TimesIssued(requests, name) == Cardinality({i \in 1..Len(requests) : requests[i] = name})

\* C24: scrapeWebsite tries the rendering scrape first and issues the direct
\* fetch only when the rendering service is not configured or its scrape
\* raised; a document from the rendering scrape is returned without a direct
\* fetch; each strategy is attempted at most once.
C24_StrategyOrder ==
    Scraped =>
        /\ TimesIssued(call.requests, "firecrawl.scrape") <= 1
        /\ TimesIssued(call.requests, "fetch") <= 1
        /\ TimesIssued(call.requests, "fetch") = 1 <=> call.firecrawl.kind \in {"nokey", "throws"}
        /\ TimesIssued(call.requests, "firecrawl.scrape") = 1 <=> call.firecrawl.kind # "nokey"
        /\ call.firecrawl.kind = "throws" => call.requests = <<"firecrawl.scrape", "fetch">>
        /\ call.firecrawl.kind = "doc" => ret = parseHtml(call.firecrawl.page)
        /\ call.firecrawl.kind # "doc" => ret = scrapeWithFetch(call.fetch)

\* the rendering scrape returned a document and the direct fetch, which
\* would have failed, was not made
C24_Witness ==
    /\ Scraped
    /\ call.firecrawl.kind = "doc"
    /\ call.fetch.kind = "throws"
    /\ call.requests = <<"firecrawl.scrape">>
    /\ ret.error = JNull


(***************************************************************************)
(* Mobile composite score                                                  *)
(***************************************************************************)
\* round(0.8 * (m + d) / 2 + 0.2 * m) for integers m and d
Blend(m, d) == (4 * (m + d) + 2 * m + 5) \div 10

\* C25: the mobile composite is null exactly when the mobile performance is
\* unavailable; with both performances it is round(0.8 (m + d) / 2 + 0.2 m),
\* between 0 and 100; an unavailable desktop performance is a missing source
\* and not a score of 0, so the blend of the mobile performance alone is the
\* mobile performance.
C25_MobileComposite ==
    Analyzed =>
        LET m == extractLighthouseScores(call.mobileData).performance
            d == extractLighthouseScores(call.desktopData).performance
        IN /\ ret.mobile = NULL <=> m = NULL
           /\ (m # NULL /\ d # NULL) => (ret.mobile = Blend(m, d) /\ ret.mobile \in 0..100)
           /\ (m # NULL /\ d = NULL) => ret.mobile = Blend(m, m)


(***************************************************************************)
(* The two classifiers                                                     *)
(***************************************************************************)
\* what the module that is not linked returns for the same scores
OtherRecommendation ==
    IF engine = "part_001"
    THEN calculateRecommendation000(scores) ELSE calculateRecommendation001(scores)

\* value is 5, maintenance (5 when absent) is above 4 and the product score
\* is at least 6
PivotBoundary ==
    /\ scores["value"] = 5
    /\ OrElse(scores["maintenance"], 5) > 4
    /\ AtLeast(calculateProductScore(scores), 6)

\* C26: the two calculateRecommendation variants agree on every scores map
\* whose value is not 5; they differ exactly when value is 5, maintenance is
\* above 4 and the product score is at least 6, and then the variant with
\* value < 5 returns pause and the one with value <= 5 returns pivot.
C26_VariantsDifferOnlyAtFive ==
    recommendation # "none" =>
        /\ scores["value"] # 5 => recommendation = OtherRecommendation
        /\ recommendation # OtherRecommendation <=> PivotBoundary
        /\ PivotBoundary =>
              /\ calculateRecommendation000(scores) = "pause"
              /\ calculateRecommendation001(scores) = "pivot"

\* value 5 with a product score of 7.5 and maintenance 6: pause by one
\* module, pivot by the other
C26_Witness ==
    /\ engine = "part_000"
    /\ recommendation = "pause"
    /\ scores["value"] = 5
    /\ scores["usability"] = 10
    /\ scores["maintenance"] = 6
    /\ OtherRecommendation = "pivot"


(***************************************************************************)
(* Project limit                                                           *)
(***************************************************************************)
\* C27: the projects of a free-tier user never exceed the limit of 3,
\* whatever the interleaving of the POST /api/projects requests: no request
\* inserts when the user owns 3 projects already.
C27_ProjectLimit == owned <= FreeProjectLimit


\* the ids of the items that are being created or evaluated
Busy(q) == {q[i].id : i \in {j \in 1..Len(q) : q[j].status \in {"creating", "evaluating"}}}

\* the status of the item with this id, "absent" when the queue has none
StatusOf(q, id) ==
    IF \E i \in 1..Len(q) : q[i].id = id
    THEN q[CHOOSE i \in 1..Len(q) : q[i].id = id].status
    ELSE "absent"

\* the processItem call of this item has ended in this step
Ended(inv) == \A x \in inflight' : x.id # inv.id

\* C28: under addToQueue, startProcessing, pauseProcessing, retryFailed,
\* clearQueue and the answers to the requests, at most one item is creating
\* or evaluating and at most one processItem call is running; a processItem
\* call starts only in a step in which every running call ends, and a call
\* ends only with its item completed or failed (or cleared away), so that no
\* operation, pauseProcessing included, cancels it.
C28_OneItemAtATime ==
    /\ [](Cardinality(Busy(queue)) <= 1 /\ Cardinality(inflight) <= 1)
    /\ [][\A inv \in inflight :
            /\ (\E x \in inflight' \ inflight : x.step = "create") => Ended(inv)
            /\ Ended(inv) => StatusOf(queue', inv.id) \in {"completed", "failed", "absent"}]_vars

\* the first item is done, the second one is being evaluated while paused
C28_Witness ==
    /\ Len(queue) = 2
    /\ queue[1].status \in {"completed", "failed"}
    /\ queue[2].status = "evaluating"
    /\ ~shouldProcess
    /\ inflight # {}

\* C29: no step issues POST /api/projects for an item that has a projectId,
\* be it after retryFailed or after a reload of the page.
C29_CreatedOnce ==
    [][\A i \in 1..Len(queue) :
          queue[i].projectId # NoProject => created'[queue[i].id] = created[queue[i].id]]_vars

\* no item is waiting or being processed
Drained(q) == \A i \in 1..Len(q) : q[i].status \in {"completed", "failed"}

\* C30: when every request is answered, an item that is pending, creating or
\* evaluating while processing is on reaches completed or failed unless the
\* processing is paused or the queue cleared; processing is switched off only
\* by pauseProcessing, by clearQueue or when nothing is pending and no call
\* is running, and it is off whenever the queue is drained and no call runs.
C30_QueueDrains ==
    /\ \A id \in 1..MaxItems :
          (shouldProcess /\ StatusOf(queue, id) \in {"pending", "creating", "evaluating"})
              ~> (StatusOf(queue, id) \in {"completed", "failed", "absent"} \/ ~shouldProcess)
    /\ [][shouldProcess /\ ~shouldProcess' =>
            \/ PendingAt(queue') = {} /\ ~isProcessing'
            \/ queue' = <<>>
            \/ queue' = queue /\ inflight' = inflight]_vars
    /\ [](Drained(queue) /\ ~isProcessing => ~shouldProcess)

\* two items were processed, one completed and one failed, and processing
\* has stopped
C30_Witness ==
    /\ Len(queue) = 2
    /\ \E i, j \in 1..2 : queue[i].status = "completed" /\ queue[j].status = "failed"
    /\ ~shouldProcess
    /\ ~isProcessing
    /\ inflight = {}
====
